---- MODULE Spec2Model ----
(***************************************************************************)
(* Model of the Discord OAuth2 callback flow of oauth-website:             *)
(*   src/service.py       aiohttp service (handle_callback, exchange_code, *)
(*                        get_user_info, save_user_to_pool, init_mongodb)  *)
(*   src/lambda_oauth.py  AWS Lambda variant of the same handlers          *)
(* The token endpoint, the profile endpoint and MongoDB are environment:   *)
(* their answers are inputs drawn from small sets.                         *)
(***************************************************************************)
EXTENDS Integers, Sequences, FiniteSets, TLC

(***************************************************************************)
(* Bounds of the model.                                                    *)
(***************************************************************************)
\* the wall clock (int(time.time())) runs over 0..MaxTime
MaxTime == 1
\* run_with_failsafe is called with max_retries in 0..MaxRetries
MaxRetries == 3
\* the parts in which an answer to requests.post comes, besides its headers
MaxParts == 2
\* request slots handled concurrently by the event loop / Lambda instances
Requests == {"r1", "r2"}
Impls == {"service", "lambda"}

(***************************************************************************)
(* Python / JSON values.  A value is a tagged record: t is the Python      *)
(* type ("none", "str", "int", "float", "bool", "list", "dict"), v its     *)
(* text as str() gives it.  "absent" marks a key that is missing from a    *)
(* dict (dict.get returns its default).                                    *)
(***************************************************************************)
None == [t |-> "none", v |-> ""]
KeyAbsent == [t |-> "absent", v |-> ""]
PyStr(s) == [t |-> "str", v |-> s]
PyIntVal(s) == [t |-> "int", v |-> s]
\* a float by its repr: "1.5", "0.0", "2e+20", "1e-05", "inf", "-inf", "nan"
PyFloat(s) == [t |-> "float", v |-> s]
PyBool(s) == [t |-> "bool", v |-> s]
PyList(s) == [t |-> "list", v |-> s]
PyDict(s) == [t |-> "dict", v |-> s]

\* Python truthiness of a value (`if x:` / `if not x:`)
Truthy(x) ==
    CASE x.t = "none" -> FALSE
      [] x.t = "absent" -> FALSE
      [] x.t = "str" -> x.v # ""
      [] x.t = "int" -> x.v # "0"
      [] x.t = "float" -> x.v \notin {"0.0", "-0.0"}
      [] x.t = "bool" -> x.v = "True"
      [] x.t = "list" -> x.v # "[]"
      [] x.t = "dict" -> x.v # "{}"

\* dict.get(key, default): the default only replaces a missing key
DictGet(val, default) == IF val.t = "absent" THEN default ELSE val

\* str(x) as used by an f-string
Format(x) == IF x.t = "none" THEN "None" ELSE x.v

(***************************************************************************)
(* Strings as sequences of characters, for str.upper(), int(), quote_plus  *)
(* and the slice text[:200].  The characters of the model are those of     *)
(* code 1..255 without the one of code 96 (the grave accent), which a TLA+ *)
(* string cannot hold; the operators that look at single characters have   *)
(* no value on other characters.                                           *)
(***************************************************************************)
RECURSIVE Rep(_, _)
\* the string of k copies of the character c
Rep(c, k) ==
    IF k = 0 THEN ""
    ELSE IF k = 1 THEN c
    ELSE Rep(c, k \div 2) \o Rep(c, k - (k \div 2))

\* raw bodies around the cap of the error text: 200, 201 and 300 characters
Body200 == Rep("a", 200)
Body201 == Rep("a", 200) \o "b"
Body300 == Rep("c", 300)

\* the characters of the string s
Chars(s) == [i \in 1..Len(s) |-> SubSeq(s, i, i)]

RECURSIVE Join(_)
\* the string of the characters cs (by halves, to keep the nesting shallow)
Join(cs) ==
    IF Len(cs) = 0 THEN ""
    ELSE IF Len(cs) = 1 THEN cs[1]
    ELSE LET h == Len(cs) \div 2
         IN Join(SubSeq(cs, 1, h)) \o Join(SubSeq(cs, h + 1, Len(cs)))

\* the characters of code 1..95 and of code 97..255, in the order of their
\* codes
CharsBelow96 ==
    "\t\n\f\r"
    \o ""
    \o " !\"#$%&'()*+,-./"
    \o "0123456789:;<=>?"
    \o "@ABCDEFGHIJKLMNO"
    \o "PQRSTUVWXYZ[\\]^_"
CharsAbove96 ==
    "abcdefghijklmno"
    \o "pqrstuvwxyz{|}~"
    \o ""
    \o ""
    \o " ¡¢£¤¥¦§¨©ª«¬­®¯"
    \o "°±²³´µ¶·¸¹º»¼½¾¿"
    \o "ÀÁÂÃÄÅÆÇÈÉÊËÌÍÎÏ"
    \o "ÐÑÒÓÔÕÖ×ØÙÚÛÜÝÞß"
    \o "àáâãäåæçèéêëìíîï"
    \o "ðñòóôõö÷øùúûüýþÿ"
\* chr(n) for n in 1..255, n # 96
chr(n) ==
    IF n < 96 THEN SubSeq(CharsBelow96, n, n) ELSE SubSeq(CharsAbove96, n - 96, n - 96)
\* the code of each character of the model
OrdTable ==
    LET CharCodes == (1..255) \ {96}
    IN [c \in { chr(n) : n \in CharCodes } |-> CHOOSE n \in CharCodes : chr(n) = c]
\* ord(c)
ord(c) == OrdTable[c]

\* str.upper() on one character: a-z and the lower-case letters of code
\* 224..254 (but the division sign, 247) are 32 below their upper case; the
\* micro sign becomes the Greek capital mu and the sharp s becomes "SS".
\* The upper case of code 255 is the character of code 376, which no string
\* of the model holds: UpperChar has no value there.
UpperChar(c) ==
    LET n == ord(c)
    IN CASE n \in 97..122 -> chr(n - 32)
         [] n \in (224..254) \ {247} -> chr(n - 32)
         [] n = 181 -> "Μ"
         [] n = 223 -> "SS"
         [] n \notin (97..122) \cup {181, 223} \cup ((224..255) \ {247}) -> c

\* str.upper()
upper(s) == Join([i \in 1..Len(s) |-> UpperChar(SubSeq(s, i, i))])

Digits == <<"0","1","2","3","4","5","6","7","8","9">>
IsDigit(c) == \E i \in 1..10 : Digits[i] = c
DigitVal(c) == (CHOOSE i \in 1..10 : Digits[i] = c) - 1

\* A Python int is held as its decimal text (Python ints are unbounded):
\* no sign for zero and positive numbers, no leading zeros.
NoLeadingZeros(cs) ==
    IF \E i \in 1..Len(cs) : cs[i] # "0"
    THEN SubSeq(cs, CHOOSE i \in 1..Len(cs) :
                        cs[i] # "0" /\ \A j \in 1..(i - 1) : cs[j] = "0",
                Len(cs))
    ELSE IF cs = <<>> THEN <<>> ELSE <<"0">>

IntText(neg, digits) ==
    LET ds == NoLeadingZeros(digits)
    IN IF neg /\ ds # <<"0">> THEN "-" \o Join(ds) ELSE Join(ds)

\* the characters int() strips from both ends of a string: space, \t, \n,
\* \v (code 11), \f, \r, the next-line control (code 133) and the no-break
\* space (code 160)
Whitespace == {" ", "\t", "\n", chr(11), "\f", "\r", chr(133), chr(160)}
\* the sequence cs without its leading and trailing whitespace
Strip(cs) ==
    IF \E i \in 1..Len(cs) : cs[i] \notin Whitespace
    THEN SubSeq(cs,
                CHOOSE i \in 1..Len(cs) :
                    cs[i] \notin Whitespace /\ \A j \in 1..(i - 1) : cs[j] \in Whitespace,
                CHOOSE i \in 1..Len(cs) :
                    cs[i] \notin Whitespace /\ \A j \in (i + 1)..Len(cs) : cs[j] \in Whitespace)
    ELSE <<>>

\* sys.get_int_max_str_digits(): int(str) refuses more digits than this
int_max_str_digits == 4300

(***************************************************************************)
(* int(float).  A float is an IEEE 754 double: its repr names the double   *)
(* nearest to the decimal number written, and int() gives the integer part *)
(* of that double.  Numbers of any size are sequences of decimal digits.   *)
(***************************************************************************)
\* ds div 2
Halve(ds) ==
    LET h == [i \in 1..Len(ds) |->
                ((IF i > 1 /\ ds[i - 1] % 2 = 1 THEN 10 ELSE 0) + ds[i]) \div 2]
    IN IF Len(h) > 1 /\ h[1] = 0 THEN Tail(h) ELSE h
\* 2 * ds
Twice(ds) ==
    LET d == [i \in 1..Len(ds) |->
                ((2 * ds[i]) % 10) + (IF i < Len(ds) /\ ds[i + 1] >= 5 THEN 1 ELSE 0)]
    IN IF ds[1] >= 5 THEN <<1>> \o d ELSE d
\* a < b, for numbers without leading zeros
Less(a, b) ==
    \/ Len(a) < Len(b)
    \/ /\ Len(a) = Len(b)
       /\ \E i \in 1..Len(a) : a[i] < b[i] /\ \A j \in 1..(i - 1) : a[j] = b[j]

RECURSIVE HalveK(_, _)
\* ds div 2^k
HalveK(ds, k) ==
    IF k = 0 THEN ds
    ELSE IF k = 1 THEN Halve(ds)
    ELSE HalveK(HalveK(ds, k \div 2), k - (k \div 2))
RECURSIVE TwiceK(_, _)
\* ds * 2^k
TwiceK(ds, k) ==
    IF k = 0 THEN ds
    ELSE IF k = 1 THEN Twice(ds)
    ELSE TwiceK(TwiceK(ds, k \div 2), k - (k \div 2))

\* 2^53: a double has 53 significant bits
Two53 == <<9,0,0,7,1,9,9,2,5,4,7,4,0,9,9,2>>
RECURSIVE ExcessBits(_, _, _)
\* the least k in lo..hi with ds div 2^k < 2^53
ExcessBits(ds, lo, hi) ==
    IF lo = hi THEN lo
    ELSE LET mid == (lo + hi) \div 2
         IN IF Less(HalveK(ds, mid), Two53)
            THEN ExcessBits(ds, lo, mid)
            ELSE ExcessBits(ds, mid + 1, hi)

\* the double nearest to the whole number ds (ties to the even mantissa)
NearestDouble(ds) ==
    IF Less(ds, Two53) THEN ds
    ELSE LET \* n + 1
             Succ(n) ==
                 IF \A i \in 1..Len(n) : n[i] = 9
                 THEN <<1>> \o [i \in 1..Len(n) |-> 0]
                 ELSE LET j == CHOOSE i \in 1..Len(n) :
                                   n[i] # 9 /\ \A l \in (i + 1)..Len(n) : n[l] = 9
                      IN [i \in 1..Len(n) |->
                            IF i < j THEN n[i] ELSE IF i = j THEN n[i] + 1 ELSE 0]
             k == ExcessBits(ds, 1, 4 * Len(ds))
             m == HalveK(ds, k - 1)
             q == Halve(m)
             half == m[Len(m)] % 2 = 1
             sticky == TwiceK(m, k - 1) # ds
             odd == q[Len(q)] % 2 = 1
         IN TwiceK(IF half /\ (sticky \/ odd) THEN Succ(q) ELSE q, k)

RECURSIVE Exponent(_)
\* the number written by the digits cs of an exponent
Exponent(cs) ==
    IF cs = <<>> THEN 0
    ELSE 10 * Exponent(SubSeq(cs, 1, Len(cs) - 1)) + DigitVal(cs[Len(cs)])

\* int(x) of the finite float of repr text: the integer part, towards zero
FloatInt(text) ==
    LET \* the position of the character c in xs, 0 when it is not there
        Find(xs, c) ==
            IF \E i \in 1..Len(xs) : xs[i] = c
            THEN CHOOSE i \in 1..Len(xs) : xs[i] = c
            ELSE 0
        DigitsOf(xs) == [i \in 1..Len(xs) |-> DigitVal(xs[i])]
        DigitChars(ds) == [i \in 1..Len(ds) |-> Digits[ds[i] + 1]]
        cs == Chars(text)
        neg == cs[1] = "-"
        body == IF neg THEN Tail(cs) ELSE cs
        e == Find(body, "e")
        mant == IF e = 0 THEN body ELSE SubSeq(body, 1, e - 1)
        ex == IF e = 0 THEN 0
              ELSE IF body[e + 1] = "-" THEN 0 - Exponent(SubSeq(body, e + 2, Len(body)))
              ELSE IF body[e + 1] = "+" THEN Exponent(SubSeq(body, e + 2, Len(body)))
              ELSE Exponent(SubSeq(body, e + 1, Len(body)))
        dot == Find(mant, ".")
        ipart == IF dot = 0 THEN mant ELSE SubSeq(mant, 1, dot - 1)
        fpart == IF dot = 0 THEN <<>> ELSE SubSeq(mant, dot + 1, Len(mant))
        all == ipart \o fpart
        shift == ex - Len(fpart)
        whole == IF shift >= 0 THEN all \o [i \in 1..shift |-> "0"]
                 ELSE IF Len(all) + shift <= 0 THEN <<"0">>
                 ELSE SubSeq(all, 1, Len(all) + shift)
    IN IntText(neg, DigitChars(NearestDouble(DigitsOf(NoLeadingZeros(whole)))))

\* int(x): the int (val) or the exception it raises (exc).  int(str) strips
\* whitespace, takes one sign and decimal digits, with single underscores
\* between digits, and refuses more than int_max_str_digits digits;
\* int(float) cuts the fraction and refuses nan and the infinities
PyInt(x) ==
    CASE x.t = "int" -> [exc |-> "", val |-> x.v]
      [] x.t = "bool" -> [exc |-> "", val |-> IF x.v = "True" THEN "1" ELSE "0"]
      [] x.t = "float" ->
           IF x.v = "nan" THEN [exc |-> "ValueError", val |-> ""]
           ELSE IF x.v \in {"inf", "-inf"} THEN [exc |-> "OverflowError", val |-> ""]
           ELSE [exc |-> "", val |-> FloatInt(x.v)]
      \* a string of the characters of the model
      [] x.t = "str" /\ \A i \in 1..Len(x.v) : SubSeq(x.v, i, i) \in DOMAIN OrdTable ->
           LET cs == Strip(Chars(x.v))
               signed == cs # <<>> /\ cs[1] \in {"+", "-"}
               body == IF signed THEN Tail(cs) ELSE cs
               neg == signed /\ cs[1] = "-"
               ok == /\ body # <<>>
                     /\ \A i \in 1..Len(body) :
                           \/ IsDigit(body[i])
                           \/ /\ body[i] = "_"
                              /\ 1 < i /\ i < Len(body)
                              /\ IsDigit(body[i - 1]) /\ IsDigit(body[i + 1])
               digits == SelectSeq(body, IsDigit)
           IN IF ok /\ Len(digits) <= int_max_str_digits
              THEN [exc |-> "", val |-> IntText(neg, digits)]
              ELSE [exc |-> "ValueError", val |-> ""]
      [] x.t \in {"none", "list", "dict"} -> [exc |-> "TypeError", val |-> ""]

(***************************************************************************)
(* The raw text of a JSON body, as json.dumps writes a value.              *)
(***************************************************************************)
\* one character inside a JSON string: quote, backslash and the characters
\* outside space..~ are escaped
json_char(c) ==
    LET n == ord(c)
        LowerHexDigits == <<"0","1","2","3","4","5","6","7","8","9",
                            "a","b","c","d","e","f">>
    IN CASE c = "\"" -> "\\\""
         [] c = "\\" -> "\\\\"
         [] c = "\n" -> "\\n"
         [] c = "\r" -> "\\r"
         [] c = "\t" -> "\\t"
         [] c = "\f" -> "\\f"
         [] n = 8 -> "\\b"
         [] n \in (32..126) \ {34, 92} -> c
         [] n \notin (32..126) \cup {8, 9, 10, 12, 13} ->
              "\\u00" \o LowerHexDigits[(n \div 16) + 1] \o LowerHexDigits[(n % 16) + 1]

\* json.dumps(x); of the lists and dicts only the empty ones are written
json_dumps(x) ==
    CASE x.t = "none" -> "null"
      [] x.t = "bool" -> IF x.v = "True" THEN "true" ELSE "false"
      [] x.t = "int" -> x.v
      [] x.t = "float" ->
           CASE x.v = "nan" -> "NaN"
             [] x.v = "inf" -> "Infinity"
             [] x.v = "-inf" -> "-Infinity"
             [] OTHER -> x.v
      [] x.t = "str" ->
           "\"" \o Join([i \in 1..Len(x.v) |-> json_char(SubSeq(x.v, i, i))]) \o "\""
      [] x.t = "list" /\ x.v = "[]" -> "[]"
      [] x.t = "dict" /\ x.v = "{}" -> "{}"

\* json.dumps of the dict of the <<key, value>> pairs whose key is present
json_object(items) ==
    LET Present(kv) == kv[2].t # "absent"
        RECURSIVE json_items(_)
        \* "key": value, ... of the pairs
        json_items(kvs) ==
            IF kvs = <<>> THEN ""
            ELSE "\"" \o kvs[1][1] \o "\": " \o json_dumps(kvs[1][2])
                 \o (IF Len(kvs) > 1 THEN ", " \o json_items(Tail(kvs)) ELSE "")
    IN "{" \o json_items(SelectSeq(items, Present)) \o "}"

(***************************************************************************)
(* Answers of the token endpoint and of the profile endpoint.              *)
(* kind says how the request itself ended (session.post / session.get,     *)
(* and for requests.post / requests.get the connection): "timeout"         *)
(* (asyncio.TimeoutError / requests.Timeout), "network"                    *)
(* (aiohttp.ClientError / requests.RequestException), "unexpected" (any    *)
(* other Exception raised inside the call), "cancelled" (the               *)
(* CancelledError of a cancelled handler task) or "response" with a status *)
(* and a body.  exc and detail are the class and str(e) of a raised        *)
(* exception.  A body is its raw text and, when the text parses as JSON,   *)
(* the kind of JSON value and the fields the code reads; when it does not, *)
(* detail is str(e) of the decoder's exception.                            *)
(* read says how the read of the body ended (inside `await resp.json()`,   *)
(* inside requests.post / requests.get), and text how the                  *)
(* `await resp.text()` ended that service.py makes after a read that       *)
(* raised: each is a Step.  After a read that raised the body is not       *)
(* known, and the text that resp.text() returns, when it returns, is the   *)
(* detail of its Step.                                                     *)
(***************************************************************************)
TokenBody(json, access_token, error, error_description, text) ==
    [json |-> json, access_token |-> access_token, error |-> error,
     error_description |-> error_description, text |-> text, detail |-> ""]
\* Python None as the value of token_data
NoTokenData == TokenBody("null", KeyAbsent, KeyAbsent, KeyAbsent, "null")

ProfileBody(json, id, username, discriminator, avatar, message, text) ==
    [json |-> json, id |-> id, username |-> username,
     discriminator |-> discriminator, avatar |-> avatar,
     message |-> message, text |-> text, detail |-> ""]
\* Python None as the value of user_data
NoUserData == ProfileBody("null", KeyAbsent, KeyAbsent, KeyAbsent, KeyAbsent, KeyAbsent, "null")

\* how one read of the response body ended: kind "ok" (the body is there;
\* detail is the text returned by a resp.text() that follows a read that
\* raised), "timeout", "network", "unexpected" or "cancelled" (the
\* exception it raised, with its class and str(e)), or "none" (the read was
\* not made or has not ended)
Step(kind, exc, detail) == [kind |-> kind, exc |-> exc, detail |-> detail]

\* a response whose body is read in full
Outcome(kind, status, body) ==
    [kind |-> kind, status |-> status, body |-> body, exc |-> "", detail |-> "",
     read |-> Step("ok", "", ""), text |-> Step("none", "", "")]
\* the call raised the exception exc(detail)
Raise(kind, exc, detail, body) ==
    [kind |-> kind, status |-> 0, body |-> body, exc |-> exc, detail |-> detail,
     read |-> Step("none", "", ""), text |-> Step("none", "", "")]
NoTokenOutcome == Outcome("none", 0, NoTokenData)
NoProfileOutcome == Outcome("none", 0, NoUserData)

\* what exchange_code / get_user_info hand to handle_callback: the pair
\* (data, err) they return, or the exception exc that leaves them
Return(data, err) == [data |-> data, err |-> err, exc |-> ""]
Propagate(exc, data) == [data |-> data, err |-> None, exc |-> exc]

\* str(e) of the exception raised by the JSON decoding of the body b
JsonDetail(b) == b.detail

\* a slice that keeps the whole text
Cut_Whole(text, n) == text

\* text[:n]
Cut(text, n) == SubSeq(text, 1, IF Len(text) < n THEN Len(text) ELSE n)

\* exchange_code without the status check: every response is parsed as a
\* token payload
exchange_code_NoStatusCheck(out) ==
    CASE out.kind = "timeout" ->
           Return(NoTokenData, PyStr("Token exchange timed out - Discord API slow"))
      [] out.kind = "network" ->
           Return(NoTokenData,
                  PyStr("Network error during token exchange: " \o out.detail))
      [] out.kind = "unexpected" ->
           Return(NoTokenData,
                  PyStr("Unexpected error during token exchange: " \o out.detail))
      [] OTHER ->
           IF out.body.json = "invalid"
           THEN Return(NoTokenData,
                       PyStr("Invalid JSON response from Discord: " \o JsonDetail(out.body)))
           ELSE Return(out.body, None)

\* service.py exchange_code: the pair (token_data, error), or the
\* CancelledError that none of its except clauses catches
exchange_code(out) ==
    LET b == out.body
        \* the except clauses around the session
        Outer(kind, detail) ==
            CASE kind = "timeout" ->
                   Return(NoTokenData, PyStr("Token exchange timed out - Discord API slow"))
              [] kind = "network" ->
                   Return(NoTokenData,
                          PyStr("Network error during token exchange: " \o detail))
              [] kind = "unexpected" ->
                   Return(NoTokenData,
                          PyStr("Unexpected error during token exchange: " \o detail))
              [] kind = "cancelled" -> Propagate("CancelledError", NoTokenData)
        Rejected(error_msg) ==
            Return(NoTokenData,
                   PyStr("Token exchange failed (" \o ToString(out.status)
                         \o "): " \o error_msg))
        error_text(text) == IF Len(text) > 200 THEN Cut(text, 200) ELSE text
    IN IF out.kind # "response" THEN Outer(out.kind, out.detail)
       ELSE IF out.status # 200
       THEN IF out.read.kind = "ok"
            THEN Rejected(IF b.json = "object"
                          THEN Format(DictGet(b.error_description,
                                              DictGet(b.error, PyStr("Unknown error"))))
                          ELSE error_text(b.text))
            \* the bare except took what the read raised, also a
            \* CancelledError; resp.text() returns the text or raises
            ELSE IF out.text.kind = "ok" THEN Rejected(error_text(out.text.detail))
                 ELSE Outer(out.text.kind, out.text.detail)
       \* `except Exception as e` around resp.json() of a 200 answer
       ELSE IF out.read.kind = "cancelled"
       THEN Propagate("CancelledError", NoTokenData)
       ELSE IF out.read.kind # "ok"
       THEN Return(NoTokenData,
                   PyStr("Invalid JSON response from Discord: " \o out.read.detail))
       ELSE IF b.json = "invalid"
            THEN Return(NoTokenData,
                        PyStr("Invalid JSON response from Discord: " \o JsonDetail(b)))
            ELSE Return(b, None)

\* lambda_oauth.py exchange_code; requests.post reads the body before it
\* returns, so that a failed read is an exception of requests.post
L_exchange_code(out) ==
    LET b == out.body
        Raised(e) ==
            CASE e.kind = "timeout" ->
                   Return(NoTokenData, PyStr("Token exchange timed out"))
              [] e.kind = "network" ->
                   Return(NoTokenData, PyStr("Network error: " \o e.detail))
              \* no except clause for other exceptions
              [] OTHER -> Propagate(e.exc, NoTokenData)
        \* a timeout of the socket while the body is read is urllib3's
        \* ReadTimeoutError, which requests raises as ConnectionError
        ReadRaised(e) ==
            IF e.kind = "timeout"
            THEN Return(NoTokenData,
                        PyStr("Network error: HTTPSConnectionPool(host='discord.com', "
                              \o "port=443): Read timed out."))
            ELSE Raised(e)
    IN IF out.kind # "response" THEN Raised(out)
       ELSE IF out.read.kind # "ok" THEN ReadRaised(out.read)
       ELSE IF out.status # 200
       THEN Return(NoTokenData,
                   PyStr("Token exchange failed (" \o ToString(out.status) \o "): "
                         \o (IF b.json = "object"
                             THEN Format(DictGet(b.error_description,
                                                 DictGet(b.error, PyStr("Unknown error"))))
                             ELSE Cut(b.text, 200))))
       ELSE IF b.json = "invalid"
            \* requests' JSONDecodeError is a RequestException
            THEN Return(NoTokenData, PyStr("Network error: " \o JsonDetail(b)))
            ELSE Return(b, None)

\* get_user_info that reports a timeout as (None, None)
get_user_info_SilentTimeout(out) ==
    CASE out.kind = "timeout" -> Return(NoUserData, None)
      [] out.kind = "network" ->
           Return(NoUserData, PyStr("Network error fetching user info: " \o out.detail))
      [] out.kind = "unexpected" ->
           Return(NoUserData, PyStr("Unexpected error fetching user info: " \o out.detail))
      [] OTHER ->
           IF out.status # 200
           THEN Return(NoUserData,
                       PyStr("Failed to fetch user info (" \o ToString(out.status)
                             \o "): " \o out.body.text))
           ELSE IF out.body.json = "invalid"
                THEN Return(NoUserData,
                            PyStr("Invalid JSON from Discord user API: "
                                  \o JsonDetail(out.body)))
                ELSE Return(out.body, None)

\* service.py get_user_info: the pair (user_data, error), or the
\* CancelledError that none of its except clauses catches
get_user_info(out) ==
    LET b == out.body
        \* the except clauses around the session
        Outer(kind, detail) ==
            CASE kind = "timeout" ->
                   Return(NoUserData, PyStr("User info request timed out"))
              [] kind = "network" ->
                   Return(NoUserData,
                          PyStr("Network error fetching user info: " \o detail))
              [] kind = "unexpected" ->
                   Return(NoUserData,
                          PyStr("Unexpected error fetching user info: " \o detail))
              [] kind = "cancelled" -> Propagate("CancelledError", NoUserData)
        Rejected(error_msg) ==
            Return(NoUserData,
                   PyStr("Failed to fetch user info (" \o ToString(out.status)
                         \o "): " \o error_msg))
    IN IF out.kind # "response" THEN Outer(out.kind, out.detail)
       ELSE IF out.status # 200
       THEN IF out.read.kind = "ok"
            THEN Rejected(IF b.json = "object"
                          THEN Format(DictGet(b.message, PyStr("Unknown error")))
                          ELSE b.text)
            \* the bare except took what the read raised, also a
            \* CancelledError; resp.text() returns the text or raises
            ELSE IF out.text.kind = "ok" THEN Rejected(out.text.detail)
                 ELSE Outer(out.text.kind, out.text.detail)
       \* `except Exception as e` around resp.json() of a 200 answer
       ELSE IF out.read.kind = "cancelled"
       THEN Propagate("CancelledError", NoUserData)
       ELSE IF out.read.kind # "ok"
       THEN Return(NoUserData,
                   PyStr("Invalid JSON from Discord user API: " \o out.read.detail))
       ELSE IF b.json = "invalid"
            THEN Return(NoUserData,
                        PyStr("Invalid JSON from Discord user API: " \o JsonDetail(b)))
            ELSE Return(b, None)

\* lambda_oauth.py get_user_info; requests.get reads the body before it
\* returns, so that a failed read is an exception of requests.get
L_get_user_info(out) ==
    LET b == out.body
        Raised(e) ==
            CASE e.kind = "timeout" ->
                   Return(NoUserData, PyStr("User info request timed out"))
              [] e.kind = "network" ->
                   Return(NoUserData, PyStr("Network error: " \o e.detail))
              \* no except clause for other exceptions
              [] OTHER -> Propagate(e.exc, NoUserData)
        \* a timeout of the socket while the body is read is urllib3's
        \* ReadTimeoutError, which requests raises as ConnectionError
        ReadRaised(e) ==
            IF e.kind = "timeout"
            THEN Return(NoUserData,
                        PyStr("Network error: HTTPSConnectionPool(host='discord.com', "
                              \o "port=443): Read timed out."))
            ELSE Raised(e)
    IN IF out.kind # "response" THEN Raised(out)
       ELSE IF out.read.kind # "ok" THEN ReadRaised(out.read)
       ELSE IF out.status # 200
       THEN Return(NoUserData,
                   PyStr("Failed to fetch user info (" \o ToString(out.status) \o "): "
                         \o (IF b.json = "object"
                             THEN Format(DictGet(b.message, PyStr("Unknown error")))
                             ELSE b.text)))
       ELSE IF b.json = "invalid"
            THEN Return(NoUserData, PyStr("Network error: " \o JsonDetail(b)))
            ELSE Return(b, None)

(***************************************************************************)
(* State.                                                                  *)
(***************************************************************************)
VARIABLES
    started,          \* service.py: on_startup has run
    startup,          \* service.py init_mongodb: "idle", or "ping" while it
                      \* awaits mongo_client.admin.command('ping')
    mongo_client,     \* service.py global mongo_client: "None" or "client"
    db,               \* service.py global db: "None" or "db"
    L_mongo_client,   \* lambda_oauth.py global mongo_client
    L_db,             \* lambda_oauth.py global db
    oauth_users,      \* the collection discord_bot.oauth_users: a set of documents
    now,              \* int(time.time())
    req,              \* the callback requests in flight, by slot
    ping,             \* service.py init_mongodb: what the ping answered
    health,           \* the last answer of GET /health
    page,             \* the last answer of GET /, /authorize, /error
    hash_seed,        \* the seed of the process's str hash (PYTHONHASHSEED)
    MONGODB_URI,      \* config.py MONGODB_URI, read from the environment at import
    failsafe          \* service.py run_with_failsafe: its locals and position

vars == <<started, startup, mongo_client, db, L_mongo_client, L_db, oauth_users, now, req,
          ping, health, page, hash_seed, MONGODB_URI, failsafe>>

\* the outcome of one request: the view, its status and what the view
\* shows; hex is the error_hex of an error view
Result(kind, code, message, status, user_id, display) ==
    [kind |-> kind, code |-> code, message |-> message, status |-> status,
     user_id |-> user_id, display |-> display, hex |-> ""]
NoResult == Result("none", "", "", 0, "", "")

\* the strings whose hash the model knows
HashedStrings ==
    << "NO_CODE", "TOKEN_ERROR", "NO_TOKEN",
       "USER_ERROR", "ACCESS_DENIED", "SERVER_ERROR",
       "AUTH_FAILED", "STORE_ERROR", "INVALID_REQUEST",
       "UNAUTHORIZED_CLIENT", "UNSUPPORTED_RESPONSE_TYPE", "INVALID_SCOPE",
       "TEMPORARILY_UNAVAILABLE", "INVALID_GRANT", "" >>
\* hash(str) of the process: CPython (3.11, 64-bit, siphash13) derives it
\* from the seed of the process (PYTHONHASHSEED).  The table holds the
\* hashes of HashedStrings, as decimal text, for the seeds 0, 1 and 2: row
\* seed + 1, column of the string in HashedStrings
HashValues ==
    <<
       << "1197689335835547254", "203232159080498697", "-8040411559384969741",
          "-6105515158373815905", "118939640986807397", "1323703355542520412",
          "-7930563725477750168", "-196815608025984535", "-4072609078915283250",
          "-4273670323245079424", "-8141855755371228978", "-2481158565693256453",
          "-7168948103497008123", "8437196845219024171", "0" >>,
       << "-1350747210824126181", "-2832294745749254902", "-8330208524992764750",
          "-3711064652765317526", "5015040428888472201", "-2051613009094921417",
          "-6553593820189202297", "-596696899956371730", "-8149749590766333813",
          "1943900105547111455", "3318708389232967670", "757963932943662466",
          "5330214639210810225", "7708041996386539145", "0" >>,
       << "-5936445509133897772", "473339814944733789", "376471243896186618",
          "-4946003705752046705", "-609267417949314390", "-6266645368138794748",
          "3090792933010633235", "-6523671149578055463", "-4182885937984997653",
          "-5934568828886215803", "-6907582496727156884", "-4727749757783291327",
          "-3706577606437946148", "2669040397973022440", "0" >>
    >>
HashSeeds == 0..(Len(HashValues) - 1)
\* hash(s) of the process: the column of the string s in the row of the seed
hash(s) ==
    HashValues[hash_seed + 1][CHOOSE i \in 1..Len(HashedStrings) : HashedStrings[i] = s]

RECURSIVE ModDigits(_, _, _)
\* the number with the decimal digits ds after the digits of value acc, mod m
ModDigits(ds, acc, m) ==
    IF ds = <<>> THEN acc
    ELSE ModDigits(Tail(ds), (acc * 10 + DigitVal(ds[1])) % m, m)

\* n % m for the int n held as decimal text and 0 < m < 2^16; the result
\* has the sign of m
PyMod(n, m) ==
    LET cs == Chars(n)
        neg == cs[1] = "-"
        a == ModDigits(IF neg THEN Tail(cs) ELSE cs, 0, m)
    IN IF neg THEN (m - a) % m ELSE a

HexDigits == <<"0","1","2","3","4","5","6","7","8","9","A","B","C","D","E","F">>
\* format(n, '04X') for n >= 0: zero-padded to at least 4 digits
Format04X(n) ==
    LET RECURSIVE HexOf(_), HexLen(_), Zeros(_)
        \* the uppercase hexadecimal digits of k >= 0
        HexOf(k) ==
            IF k < 16 THEN HexDigits[k + 1]
            ELSE HexOf(k \div 16) \o HexDigits[(k % 16) + 1]
        \* the number of hexadecimal digits of k >= 0
        HexLen(k) == IF k < 16 THEN 1 ELSE 1 + HexLen(k \div 16)
        Zeros(k) == IF k <= 0 THEN "" ELSE "0" \o Zeros(k - 1)
    IN Zeros(4 - HexLen(n)) \o HexOf(n)

\* error_hex of render_error: format(hash(error_code) % 0xFFFF, '04X'); the
\* hash and the remainder are each computed once, as the element of a set
error_hex(error_code) ==
    CHOOSE hex \in { Format04X(n) :
                        n \in { PyMod(h, 65535) : h \in {hash(error_code)} } } : TRUE

\* an error view sent as a client error
render_error_BadRequest(error_code, error_message) ==
    [Result("Failure", error_code, error_message, 400, "", "")
        EXCEPT !.hex = error_hex(error_code)]

\* render_error / html_response(render_error(..)): the error view, status 200
render_error(error_code, error_message) ==
    [Result("Failure", error_code, error_message, 200, "", "")
        EXCEPT !.hex = error_hex(error_code)]
\* the success view of handle_callback, status 200
render_success(user_id, display_name) ==
    Result("Success", "", "", 200, user_id, Format(display_name))
\* an exception that leaves the handler: aiohttp answers 500, the Lambda
\* invocation fails (502 at the gateway)
Unhandled(impl, exc) ==
    Result("Exception", exc, "", IF impl = "service" THEN 500 ELSE 502, "", "")

Query(code, error, error_description) ==
    [code |-> code, error |-> error, error_description |-> error_description]
NoQuery == Query(KeyAbsent, KeyAbsent, KeyAbsent)

\* the answer of GET /health: status and the 'mongodb' field of the body
Health(impl, status, mongodb) == [impl |-> impl, status |-> status, mongodb |-> mongodb]
NoHealth == Health("none", 0, "")

\* config: CLIENT_SECRET
CLIENT_SECRET == "client-secret"

\* an outbound HTTP request of the handler: the endpoint and the
\* credentials it carries
Outbound(url, client_secret, code, Authorization) ==
    [url |-> url, client_secret |-> client_secret, code |-> code,
     Authorization |-> Authorization]
\* exchange_code: the form posted to DISCORD_TOKEN_URL
token_request(code) == Outbound("oauth2/token", CLIENT_SECRET, Format(code), "")
\* get_user_info: the GET of /users/@me with its Authorization header
profile_request(access_token) ==
    Outbound("users/@me", "", "", "Bearer " \o Format(access_token))

\* pc: where the handler is: "Idle", "Exchanging" (exchange_code waits for
\* session.post / requests.post connects), "ExchangeBody" (the body of the
\* token response is read: `await resp.json()`, the rest of requests.post),
\* "ExchangeText" (service.py awaits resp.text() after a read that raised),
\* "FetchingProfile", "FetchBody", "FetchText" (the same of get_user_info),
\* "Persisting", "Saving", "Rendered", "Cancelled";
\* resp: the response whose body is being read: its status and how the
\* read ended; waited: the time the timer of the token request has counted,
\* elapsed: the time since exchange_code was called; parts: the reads of
\* the socket of requests.post that brought a part of the answer;
\* calls: how often the request has called exchange_code, get_user_info and
\* save_user_to_pool;
\* connected_at: the clock as save_user_to_pool read it (-1 before);
\* sent: the outbound requests issued so far; sessions: the HTTP client
\* sessions created so far (aiohttp.ClientSession() per call in service.py,
\* the Session inside requests.post / requests.get in lambda_oauth.py)
IdleReq ==
    [pc |-> "Idle", impl |-> "service", query |-> NoQuery,
     tok |-> NoTokenOutcome, prof |-> NoProfileOutcome,
     resp |-> [status |-> 0, read |-> Step("none", "", "")],
     access_token |-> None, user_id |-> "", username |-> None,
     discriminator |-> None, avatar |-> None,
     connected_at |-> -1, saved |-> "none", result |-> NoResult,
     calls |-> [exchange |-> 0, fetch |-> 0, save |-> 0], waited |-> 0, elapsed |-> 0,
     parts |-> 0, cancelled |-> FALSE,
     sent |-> <<>>, sessions |-> 0]

\* the answer of a GET of /, /authorize or /error
Page(impl, path, result) == [impl |-> impl, path |-> path, result |-> result]
NoPage == Page("none", "", NoResult)

\* run_with_failsafe: pc is "idle" (not called), "loop" (at the while
\* test), "starting" (in the try block, before web.run_app), "running"
\* (inside web.run_app), "freeing" (`fuser -k` and time.sleep(3) after
\* 'Address already in use', before retry_count += 1), "delaying"
\* (time.sleep(retry_delay) after a crash), "returned", "exited"
\* (sys.exit), "raised" (an exception left the function) or "killed" (the
\* process was ended by a signal); starts counts the calls of web.run_app,
\* last is how the last one ended, reported says that "Max retries reached"
\* was logged, exit is the exit status of the process; sigint and sigterm
\* are the handlers of the two signals and signal is the one that ended the
\* function
Failsafe(pc, max_retries, retry_count, starts, last, reported, exit) ==
    [pc |-> pc, max_retries |-> max_retries, retry_count |-> retry_count,
     starts |-> starts, last |-> last, reported |-> reported, exit |-> exit,
     sigint |-> "default_int_handler", sigterm |-> "SIG_DFL", signal |-> "none"]
IdleFailsafe == Failsafe("idle", 0, 0, 0, "none", FALSE, -1)

\* the state of the process but for the seed of its str hash; the
\* environment gives MONGODB_URI a value, or the empty string
Boot ==
    /\ MONGODB_URI \in {"", "mongodb+srv"}
    /\ started = FALSE
    /\ startup = "idle"
    /\ mongo_client = "None"
    /\ db = "None"
    /\ L_mongo_client = "None"
    /\ L_db = "None"
    /\ oauth_users = {}
    /\ now = 0
    /\ req = [r \in Requests |-> IdleReq]
    /\ ping = "none"
    /\ health = NoHealth
    /\ page = NoPage
    /\ failsafe = IdleFailsafe

Init ==
    /\ Boot
    /\ hash_seed = 0

(***************************************************************************)
(* handle_callback, cut at its suspension points.  Each operator maps the  *)
(* request's state to its state at the next suspension point or at the     *)
(* rendered result.                                                        *)
(***************************************************************************)
Render(q, res) == [q EXCEPT !.pc = "Rendered", !.result = res]

\* handle_callback without the `if not code` check
callback_parse_NoCodeCheck(impl, query) ==
    LET q == [IdleReq EXCEPT !.impl = impl, !.query = query]
        error == DictGet(query.error, None)
    IN IF Truthy(error)
       THEN Render(q, render_error(upper(error.v),
                     Format(DictGet(query.error_description,
                                    PyStr("Authorization was denied.")))))
       ELSE [q EXCEPT !.pc = "Exchanging", !.calls.exchange = 1]

\* handle_callback up to the call of exchange_code (both files)
callback_parse(impl, query) ==
    LET q == [IdleReq EXCEPT !.impl = impl, !.query = query]
        code == DictGet(query.code, None)
        error == DictGet(query.error, None)
    IN IF Truthy(error)
       THEN Render(q, render_error(upper(error.v),
                     Format(DictGet(query.error_description,
                                    PyStr("Authorization was denied.")))))
       ELSE IF ~Truthy(code)
            THEN Render(q, render_error("NO_CODE", "No authorization code received."))
            ELSE [q EXCEPT !.pc = "Exchanging", !.calls.exchange = @ + 1,
                           !.sent = Append(@, token_request(code)),
                           !.sessions = @ + 1]

\* handle_callback that goes on to the profile fetch without checking the
\* access token
callback_exchanged_NoTokenCheck(q, out) ==
    LET q1 == [q EXCEPT !.tok = out, !.waited = 0]
        r == IF q.impl = "service" THEN exchange_code(out) ELSE L_exchange_code(out)
    IN IF r.exc # "" \/ Truthy(r.err) \/ r.data.json = "null"
       THEN Render(q1, render_error("TOKEN_ERROR", "Token exchange failed"))
       ELSE [q1 EXCEPT !.pc = "FetchingProfile",
                       !.access_token = DictGet(r.data.access_token, None),
                       !.calls.fetch = @ + 1]

\* from the return of exchange_code to the call of get_user_info
callback_exchanged(q, out) ==
    LET q1 == [q EXCEPT !.tok = out, !.waited = 0]
        r == IF q.impl = "service" THEN exchange_code(out) ELSE L_exchange_code(out)
        failed == IF q.impl = "service" THEN Truthy(r.err)
                  ELSE Truthy(r.err) \/ r.data.json = "null"
        msg == IF Truthy(r.err) THEN r.err.v ELSE "Token exchange failed"
        access_token == DictGet(r.data.access_token, None)
    \* a CancelledError leaves the handler: no view is rendered
    IN IF r.exc = "CancelledError"
       THEN [q1 EXCEPT !.pc = "Cancelled", !.cancelled = TRUE]
       ELSE IF r.exc # ""
       THEN Render(q1, Unhandled(q.impl, r.exc))
       ELSE IF failed
       THEN Render(q1, render_error("TOKEN_ERROR", msg))
       ELSE IF r.data.json # "object"
            THEN Render(q1, Unhandled(q.impl, "AttributeError"))
            ELSE IF ~Truthy(access_token)
                 THEN Render(q1, render_error("NO_TOKEN", "No access token in response."))
                 ELSE [q1 EXCEPT !.pc = "FetchingProfile", !.access_token = access_token,
                                 !.calls.fetch = @ + 1,
                                 !.sent = Append(@, profile_request(access_token)),
                                 !.sessions = @ + 1]

\* handle_callback that calls get_user_info a second time when it failed
callback_fetched_Retry(q, out) ==
    LET r == IF q.impl = "service" THEN get_user_info(out) ELSE L_get_user_info(out)
    IN IF (r.exc # "" \/ Truthy(r.err)) /\ q.calls.fetch < 2
       THEN [q EXCEPT !.prof = out, !.calls.fetch = @ + 1]
       ELSE IF \/ r.exc # "" \/ Truthy(r.err) \/ r.data.json # "object"
               \/ r.data.id.t = "absent" \/ PyInt(r.data.id).exc # ""
            THEN Render([q EXCEPT !.prof = out], render_error("USER_ERROR", "failed"))
            ELSE [q EXCEPT !.prof = out, !.pc = "Persisting",
                           !.user_id = PyInt(r.data.id).val,
                           !.username = r.data.username,
                           !.discriminator = DictGet(r.data.discriminator, PyStr("0")),
                           !.avatar = DictGet(r.data.avatar, None)]

\* from the return of get_user_info to the call of save_user_to_pool
callback_fetched(q, out) ==
    LET q1 == [q EXCEPT !.prof = out, !.waited = 0]
        r == IF q.impl = "service" THEN get_user_info(out) ELSE L_get_user_info(out)
        failed == IF q.impl = "service" THEN Truthy(r.err)
                  ELSE Truthy(r.err) \/ r.data.json = "null"
        msg == IF Truthy(r.err) THEN r.err.v ELSE "Failed to fetch user data"
        user_data == r.data
        user_id == PyInt(user_data.id)
    \* a CancelledError leaves the handler: no view is rendered
    IN IF r.exc = "CancelledError"
       THEN [q1 EXCEPT !.pc = "Cancelled", !.cancelled = TRUE]
       ELSE IF r.exc # ""
       THEN Render(q1, Unhandled(q.impl, r.exc))
       ELSE IF failed
       THEN Render(q1, render_error("USER_ERROR", msg))
       ELSE IF user_data.json # "object"
            THEN Render(q1, Unhandled(q.impl, "TypeError"))
            ELSE IF user_data.id.t = "absent"
                 THEN Render(q1, Unhandled(q.impl, "KeyError"))
                 ELSE IF user_id.exc # ""
                      THEN Render(q1, Unhandled(q.impl, user_id.exc))
                      ELSE IF user_data.username.t = "absent"
                           THEN Render(q1, Unhandled(q.impl, "KeyError"))
                           ELSE [q1 EXCEPT !.pc = "Persisting",
                                           !.user_id = user_id.val,
                                           !.username = user_data.username,
                                           !.discriminator =
                                               DictGet(user_data.discriminator, PyStr("0")),
                                           !.avatar = DictGet(user_data.avatar, None)]

\* display_name of handle_callback
display_name(username, discriminator) ==
    IF discriminator # PyStr("0")
    THEN PyStr(Format(username) \o "#" \o Format(discriminator))
    ELSE username

\* handle_callback that turns a failed save into an error page
callback_saved_StoreFatal(q, ret) ==
    IF ret = "False"
    THEN Render([q EXCEPT !.saved = ret],
                render_error("STORE_ERROR", "Failed to save user."))
    ELSE Render([q EXCEPT !.saved = ret],
                render_success(q.user_id, display_name(q.username, q.discriminator)))

\* from the return of save_user_to_pool to the rendered success page
callback_saved(q, ret) ==
    Render([q EXCEPT !.saved = ret],
           render_success(q.user_id, display_name(q.username, q.discriminator)))

\* handle_callback of one file from the query string to the call of
\* save_user_to_pool (pc "Persisting") or to the view it ends with, for the
\* answers tok and prof of the two endpoints
handle_callback(impl, query, tok, prof) ==
    LET a == callback_parse(impl, query)
        b == callback_exchanged(a, tok)
    IN IF a.pc # "Exchanging" THEN a
       ELSE IF b.pc # "FetchingProfile" THEN b
       ELSE callback_fetched(b, prof)

(***************************************************************************)
(* The store: db['oauth_users'].update_one({'_id': id}, {'$set': doc},     *)
(* upsert=True) and save_user_to_pool.                                     *)
(***************************************************************************)
\* a doc that is written as already logged
Doc_MarkedLogged(user_id, username, discriminator, avatar, connected_at) ==
    [_id |-> user_id, username |-> username, discriminator |-> discriminator,
     avatar |-> avatar, connected_at |-> connected_at, logged |-> TRUE,
     pulled_guilds |-> <<>>]

\* the dict `doc` built by save_user_to_pool
Doc(user_id, username, discriminator, avatar, connected_at) ==
    [_id |-> user_id, username |-> username, discriminator |-> discriminator,
     avatar |-> avatar, connected_at |-> connected_at, logged |-> FALSE,
     pulled_guilds |-> <<>>]

\* a write that keeps the profile fields of an existing record
\* ($setOnInsert for username and discriminator)
Set_KeepProfile(old, doc) ==
    [f \in DOMAIN old \cup DOMAIN doc |->
        IF f \in DOMAIN doc /\ ~(f \in {"username", "discriminator"} /\ f \in DOMAIN old)
        THEN doc[f] ELSE old[f]]

\* $set: the fields of doc are written, every other field of old is kept
Set(old, doc) ==
    [f \in DOMAIN old \cup DOMAIN doc |-> IF f \in DOMAIN doc THEN doc[f] ELSE old[f]]

\* an insert-only write ($setOnInsert): an existing record is left as it is
update_one_InsertOnly(coll, user_id, doc) ==
    IF \E d \in coll : d._id = user_id THEN coll ELSE coll \cup {doc}

\* a write that never matches the existing record and always inserts
update_one_AlwaysInsert(coll, user_id, doc) == coll \cup {doc}

\* a write that replaces the collection by the one document
update_one_DropOthers(coll, user_id, doc) == {doc}

\* update_one with upsert=True on the filter {'_id': user_id}
update_one(coll, user_id, doc) ==
    IF \E d \in coll : d._id = user_id
    THEN LET d == CHOOSE d \in coll : d._id = user_id
         IN (coll \ {d}) \cup {Set(d, doc)}
    ELSE coll \cup {doc}

\* a save that keeps the access token of the request with the record
save_user_to_pool_StoresToken(q, write) ==
    IF write = "ok"
    THEN [ret |-> "True",
          coll |-> update_one(oauth_users, q.user_id,
                      [_id |-> q.user_id, username |-> q.username,
                       discriminator |-> q.discriminator, avatar |-> q.avatar,
                       connected_at |-> q.connected_at, logged |-> FALSE,
                       pulled_guilds |-> <<>>, access_token |-> q.access_token])]
    ELSE [ret |-> "False", coll |-> oauth_users]

\* service.py save_user_to_pool from the update_one call on: the returned
\* bool and the collection after.  q.connected_at is the clock read before
\* the call; write is what the store does with the update: "ok" or "raise"
save_user_to_pool(q, write) ==
    IF write = "ok"
    THEN [ret |-> "True",
          coll |-> update_one(oauth_users, q.user_id,
                      Doc(q.user_id, q.username, q.discriminator, q.avatar,
                          q.connected_at))]
    ELSE [ret |-> "False", coll |-> oauth_users]

\* lambda_oauth.py save_user_to_pool from the update_one call on
L_save_user_to_pool(q, write) ==
    IF write = "ok"
    THEN [ret |-> "True",
          coll |-> update_one(oauth_users, q.user_id,
                      Doc(q.user_id, q.username, q.discriminator, q.avatar,
                          q.connected_at))]
    ELSE [ret |-> "False", coll |-> oauth_users]

\* lambda_oauth.py get_db: creates the client on first use; connect is
\* "ok" or "raise" (MongoClient(...) raising)
get_db(connect) ==
    IF L_mongo_client = "None"
    THEN IF connect = "ok"
         THEN [exc |-> FALSE, client |-> "client", database |-> "db"]
         ELSE [exc |-> TRUE, client |-> L_mongo_client, database |-> L_db]
    ELSE [exc |-> FALSE, client |-> L_mongo_client, database |-> L_db]

(***************************************************************************)
(* Actions.                                                                *)
(***************************************************************************)
\* service.py on_startup -> init_mongodb, one step of it; outcome is how
\* init_mongodb is going to end: "no_uri" (MONGODB_URI empty),
\* "client_raise" (the client constructor raises), "ping_fail", "ok".  With
\* a client made, the globals mongo_client and db are assigned and then the
\* ping is awaited: the answer of the ping, or the exception it raises, is a
\* second step
on_startup(outcome) ==
    /\ ~started
    /\ (outcome = "no_uri") = (MONGODB_URI = "")
    /\ \/ /\ startup = "idle"
          /\ IF outcome \in {"no_uri", "client_raise"}
             THEN /\ started' = TRUE
                  /\ UNCHANGED <<startup, mongo_client, db, ping>>
             ELSE /\ mongo_client' = "client"
                  /\ db' = "db"
                  /\ ping' = "none"
                  /\ startup' = "ping"
                  /\ UNCHANGED started
       \/ /\ startup = "ping"
          /\ outcome \in {"ping_fail", "ok"}
          /\ ping' = IF outcome = "ok" THEN "ok" ELSE "failed"
          /\ started' = TRUE
          /\ startup' = "idle"
          /\ UNCHANGED <<mongo_client, db>>
    /\ UNCHANGED <<L_mongo_client, L_db, oauth_users, now, req, health,
                   page, hash_seed, MONGODB_URI, failsafe>>

\* a /callback request arrives and runs to its first suspension point
Receive(r, impl, query) ==
    /\ req[r].pc = "Idle"
    /\ impl = "service" => started
    \* one Lambda container runs one invocation at a time
    /\ impl = "lambda" =>
         \A o \in Requests : req[o].impl = "lambda" => req[o].pc \in {"Idle", "Rendered"}
    /\ req' = [req EXCEPT ![r] = callback_parse(impl, query)]
    /\ UNCHANGED <<started, startup, mongo_client, db, L_mongo_client, L_db, oauth_users, now,
                   ping, health, page, hash_seed, MONGODB_URI, failsafe>>

\* session.post of exchange_code ends (in lambda_oauth.py: requests.post has
\* read the status line and the headers, or failed before): the answer
\* `out` begins with its status and its body is still to be read, or the
\* call raises
ExchangeReturn(r, out) ==
    /\ req[r].pc = "Exchanging"
    /\ req' = [req EXCEPT ![r] =
                 IF out.kind = "response"
                 THEN [req[r] EXCEPT
                         !.pc = "ExchangeBody",
                         !.resp = [status |-> out.status, read |-> Step("none", "", "")],
                         \* timeout=30 of requests is the timeout of the
                         \* socket: it counts anew after every read
                         !.waited = IF req[r].impl = "lambda" THEN 0 ELSE @]
                 ELSE callback_exchanged(req[r], out)]
    /\ UNCHANGED <<started, startup, mongo_client, db, L_mongo_client, L_db, oauth_users, now,
                   ping, health, page, hash_seed, MONGODB_URI, failsafe>>

\* the read of the body of the token response ends as in `out` (inside
\* `await resp.json()`; in lambda_oauth.py inside requests.post), with the
\* body or with an exception.  In service.py the bare except around the
\* decoding of a non-200 answer takes every exception of the read, also the
\* CancelledError of a cancelled handler, and resp.text() is awaited
ExchangeRead(r, out) ==
    /\ req[r].pc = "ExchangeBody"
    /\ out.kind = "response" /\ out.status = req[r].resp.status
    /\ out.read.kind # "none"
    /\ req' = [req EXCEPT ![r] =
                 IF req[r].impl = "service" /\ out.status # 200 /\ out.read.kind # "ok"
                 THEN [req[r] EXCEPT !.pc = "ExchangeText", !.resp.read = out.read,
                                     !.cancelled = @ \/ out.read.kind = "cancelled"]
                 ELSE [callback_exchanged(req[r], out) EXCEPT !.resp = IdleReq.resp]]
    /\ UNCHANGED <<started, startup, mongo_client, db, L_mongo_client, L_db, oauth_users, now,
                   ping, health, page, hash_seed, MONGODB_URI, failsafe>>

\* `await resp.text()` of exchange_code ends after a read that raised: it
\* returns a text or raises
ExchangeText(r, text) ==
    /\ req[r].pc = "ExchangeText"
    /\ text.kind # "none"
    /\ req' = [req EXCEPT ![r] =
                 [callback_exchanged(req[r],
                     [Outcome("response", req[r].resp.status, NoTokenData)
                        EXCEPT !.read = req[r].resp.read, !.text = text])
                    EXCEPT !.resp = IdleReq.resp]]
    /\ UNCHANGED <<started, startup, mongo_client, db, L_mongo_client, L_db, oauth_users, now,
                   ping, health, page, hash_seed, MONGODB_URI, failsafe>>

\* time units of ClientTimeout(total=30) / timeout=30 of the token request
ExchangeTotal == 30

\* one time unit passes while exchange_code waits and its timer has not
\* expired
ExchangeWait(r) ==
    /\ req[r].pc \in {"Exchanging", "ExchangeBody", "ExchangeText"}
    /\ req[r].waited < ExchangeTotal
    /\ req' = [req EXCEPT ![r].waited = @ + 1, ![r].elapsed = @ + 1]
    /\ UNCHANGED <<started, startup, mongo_client, db, L_mongo_client, L_db, oauth_users, now,
                   ping, health, page, hash_seed, MONGODB_URI, failsafe>>

\* lambda_oauth.py: the socket of requests.post makes progress short of the
\* end of the headers or of the body (the connection is made, a part of the
\* answer is read): timeout=30 counts anew.  ClientTimeout(total=30) of
\* service.py goes on counting
ExchangeProgress(r) ==
    /\ req[r].impl = "lambda"
    /\ req[r].pc \in {"Exchanging", "ExchangeBody"}
    /\ req[r].parts < MaxParts
    /\ req' = [req EXCEPT ![r].waited = 0, ![r].parts = @ + 1]
    /\ UNCHANGED <<started, startup, mongo_client, db, L_mongo_client, L_db, oauth_users,
                   now, ping, health, page, hash_seed, MONGODB_URI, failsafe>>

\* a token request without a timeout: it is never given up
ExchangeTimeout_Unbounded(r) ==
    /\ req[r].pc = "Exchanging"
    /\ FALSE
    /\ UNCHANGED vars

\* the timer of the token request expires: the await of the moment raises
\* asyncio.TimeoutError (requests.post raises requests.Timeout before the
\* headers are complete, and after them what L_exchange_code says of a read
\* that timed out)
ExchangeTimeout(r) ==
    /\ req[r].waited = ExchangeTotal
    /\ \/ ExchangeReturn(r, Raise("timeout", "TimeoutError", "", NoTokenData))
       \/ ExchangeRead(r, [Outcome("response", req[r].resp.status, NoTokenData)
                             EXCEPT !.read = Step("timeout", "TimeoutError", "")])
       \/ ExchangeText(r, Step("timeout", "TimeoutError", ""))

\* session.get of get_user_info ends (in lambda_oauth.py: requests.get has
\* made its connection, or failed to): the answer `out` begins with its
\* status and its body is still to be read, or the call raises
FetchReturn(r, out) ==
    /\ req[r].pc = "FetchingProfile"
    /\ req' = [req EXCEPT ![r] =
                 IF out.kind = "response"
                 THEN [req[r] EXCEPT
                         !.pc = "FetchBody",
                         !.resp = [status |-> out.status, read |-> Step("none", "", "")]]
                 ELSE callback_fetched(req[r], out)]
    /\ UNCHANGED <<started, startup, mongo_client, db, L_mongo_client, L_db, oauth_users, now,
                   ping, health, page, hash_seed, MONGODB_URI, failsafe>>

\* the read of the body of the profile response ends as in `out`, with the
\* body or with an exception; the bare except of service.py as in
\* ExchangeRead
FetchRead(r, out) ==
    /\ req[r].pc = "FetchBody"
    /\ out.kind = "response" /\ out.status = req[r].resp.status
    /\ out.read.kind # "none"
    /\ req' = [req EXCEPT ![r] =
                 IF req[r].impl = "service" /\ out.status # 200 /\ out.read.kind # "ok"
                 THEN [req[r] EXCEPT !.pc = "FetchText", !.resp.read = out.read,
                                     !.cancelled = @ \/ out.read.kind = "cancelled"]
                 ELSE [callback_fetched(req[r], out) EXCEPT !.resp = IdleReq.resp]]
    /\ UNCHANGED <<started, startup, mongo_client, db, L_mongo_client, L_db, oauth_users, now,
                   ping, health, page, hash_seed, MONGODB_URI, failsafe>>

\* `await resp.text()` of get_user_info ends after a read that raised
FetchText(r, text) ==
    /\ req[r].pc = "FetchText"
    /\ text.kind # "none"
    /\ req' = [req EXCEPT ![r] =
                 [callback_fetched(req[r],
                     [Outcome("response", req[r].resp.status, NoUserData)
                        EXCEPT !.read = req[r].resp.read, !.text = text])
                    EXCEPT !.resp = IdleReq.resp]]
    /\ UNCHANGED <<started, startup, mongo_client, db, L_mongo_client, L_db, oauth_users, now,
                   ping, health, page, hash_seed, MONGODB_URI, failsafe>>

\* save_user_to_pool is called and runs up to the update_one call: without
\* a store handle it returns False at once and the success page is rendered;
\* with one it reads the clock, builds the document and hands the update to
\* the store
SaveBegin(r, connect) ==
    /\ req[r].pc = "Persisting"
    /\ LET q == [req[r] EXCEPT !.calls.save = @ + 1]
           g == get_db(connect)
           handle == IF q.impl = "service" THEN db # "None"
                     ELSE ~g.exc /\ g.database # "None"
       IN /\ req' = [req EXCEPT ![r] =
                        IF handle
                        THEN [q EXCEPT !.pc = "Saving", !.connected_at = now]
                        ELSE callback_saved(q, "False")]
          /\ IF q.impl = "service"
             THEN UNCHANGED <<L_mongo_client, L_db>>
             ELSE L_mongo_client' = g.client /\ L_db' = g.database
    /\ UNCHANGED <<started, startup, mongo_client, db, oauth_users, now, ping, health, page,
                   hash_seed, MONGODB_URI, failsafe>>

\* the update_one call ends, save_user_to_pool returns and the success page
\* is rendered
Save(r, write) ==
    /\ req[r].pc = "Saving"
    /\ LET s == IF req[r].impl = "service" THEN save_user_to_pool(req[r], write)
                ELSE L_save_user_to_pool(req[r], write)
       IN /\ oauth_users' = s.coll
          /\ req' = [req EXCEPT ![r] = callback_saved(req[r], s.ret)]
    /\ UNCHANGED <<started, startup, mongo_client, db, L_mongo_client, L_db, now, ping, health,
                   page, hash_seed, MONGODB_URI, failsafe>>

\* the handler task of the service is cancelled while save_user_to_pool
\* waits for update_one: the CancelledError leaves the handler and no page
\* is rendered; the update, already handed to the driver, is applied or not
CancelSave(r, applied) ==
    /\ req[r].pc = "Saving"
    /\ req[r].impl = "service"
    /\ oauth_users' = IF applied THEN save_user_to_pool(req[r], "ok").coll ELSE oauth_users
    /\ req' = [req EXCEPT ![r] = [req[r] EXCEPT !.pc = "Cancelled", !.cancelled = TRUE]]
    /\ UNCHANGED <<started, startup, mongo_client, db, L_mongo_client, L_db, now, ping, health,
                   page, hash_seed, MONGODB_URI, failsafe>>

\* the handler task of the service is cancelled (the client went away)
\* while exchange_code waits: the await of the moment raises CancelledError
CancelExchange(r) ==
    /\ req[r].impl = "service"
    /\ \/ ExchangeReturn(r, Raise("cancelled", "CancelledError", "", NoTokenData))
       \/ ExchangeRead(r, [Outcome("response", req[r].resp.status, NoTokenData)
                             EXCEPT !.read = Step("cancelled", "CancelledError", "")])
       \/ ExchangeText(r, Step("cancelled", "CancelledError", ""))

\* a handler that is shielded from the cancellation and goes on with the
\* profile
CancelFetch_Shielded(r) ==
    /\ req[r].pc = "FetchBody"
    /\ req[r].impl = "service"
    /\ req' = [req EXCEPT ![r] =
                 [callback_fetched(req[r],
                     Outcome("response", 200,
                             ProfileBody("object", PyStr("1"), PyStr("alice"), KeyAbsent,
                                         KeyAbsent, KeyAbsent, "")))
                    EXCEPT !.cancelled = TRUE, !.resp = IdleReq.resp]]
    /\ UNCHANGED <<started, startup, mongo_client, db, L_mongo_client, L_db, oauth_users, now,
                   ping, health, page, hash_seed, MONGODB_URI, failsafe>>

\* the handler task of the service is cancelled while get_user_info waits
CancelFetch(r) ==
    /\ req[r].impl = "service"
    /\ \/ FetchReturn(r, Raise("cancelled", "CancelledError", "", NoUserData))
       \/ FetchRead(r, [Outcome("response", req[r].resp.status, NoUserData)
                          EXCEPT !.read = Step("cancelled", "CancelledError", "")])
       \/ FetchText(r, Step("cancelled", "CancelledError", ""))

\* the response has been sent, or the cancelled handler is gone; the slot
\* serves the next request
Done(r) ==
    /\ req[r].pc \in {"Rendered", "Cancelled"}
    /\ req' = [req EXCEPT ![r] = IdleReq]
    /\ UNCHANGED <<started, startup, mongo_client, db, L_mongo_client, L_db, oauth_users, now,
                   ping, health, page, hash_seed, MONGODB_URI, failsafe>>

\* the wall clock advances
Tick ==
    /\ now < MaxTime
    /\ now' = now + 1
    /\ UNCHANGED <<started, startup, mongo_client, db, L_mongo_client, L_db, oauth_users, req,
                   ping, health, page, hash_seed, MONGODB_URI, failsafe>>

\* the bot that polls for logged: false marks a record as logged, fills
\* pulled_guilds and stamps the record with a field of its own
Consumer(d) ==
    /\ d \in oauth_users
    /\ d.logged = FALSE
    /\ oauth_users' = (oauth_users \ {d}) \cup
          {Set(d, [logged |-> TRUE, pulled_guilds |-> <<"g1">>, notified |-> TRUE])}
    /\ UNCHANGED <<started, startup, mongo_client, db, L_mongo_client, L_db, now, req,
                   ping, health, page, hash_seed, MONGODB_URI, failsafe>>

\* a health probe that does not look at the store handle
handle_health_AlwaysOk == Health("service", 200, "connected")

\* service.py handle_health
handle_health ==
    Health("service", IF db # "None" THEN 200 ELSE 503,
           IF db # "None" THEN "connected" ELSE "disconnected")

\* lambda_oauth.py lambda_handler, path /health
L_health == Health("lambda", 200, "")

\* a GET /health request is answered
HealthCheck(impl) ==
    /\ impl = "service" => started
    /\ health' = IF impl = "service" THEN handle_health ELSE L_health
    /\ UNCHANGED <<started, startup, mongo_client, db, L_mongo_client, L_db, oauth_users, now,
                   req, ping,
                   page, hash_seed, MONGODB_URI, failsafe>>

\* run_with_failsafe(max_retries) is called; main says that __main__ calls
\* it, after installing handle_sigterm for SIGTERM and SIGINT
run_with_failsafe(max_retries, main) ==
    /\ failsafe.pc = "idle"
    /\ failsafe' =
          [Failsafe("loop", max_retries, 0, 0, "none", FALSE, -1)
             EXCEPT !.sigint = IF main THEN "handle_sigterm" ELSE @,
                    !.sigterm = IF main THEN "handle_sigterm" ELSE @]
    /\ UNCHANGED <<started, startup, mongo_client, db, L_mongo_client, L_db, oauth_users, now,
                   req, ping, health, page, hash_seed, MONGODB_URI>>

\* `while retry_count < max_retries`: the try block is entered, or the loop
\* ends, the function returns and the process ends with status 0
LoopTest ==
    /\ failsafe.pc = "loop"
    /\ failsafe' =
          IF failsafe.retry_count < failsafe.max_retries
          THEN [failsafe EXCEPT !.pc = "starting"]
          ELSE [failsafe EXCEPT !.pc = "returned", !.exit = 0]
    /\ UNCHANGED <<started, startup, mongo_client, db, L_mongo_client, L_db, oauth_users, now,
                   req, ping, health, page, hash_seed, MONGODB_URI>>

\* web.run_app(app, handle_signals=True) is called: while it runs, SIGINT
\* and SIGTERM belong to its event loop
StartApp ==
    /\ failsafe.pc = "starting"
    /\ failsafe' = [failsafe EXCEPT !.pc = "running", !.starts = @ + 1,
                                    !.sigint = "loop", !.sigterm = "loop"]
    /\ UNCHANGED <<started, startup, mongo_client, db, L_mongo_client, L_db, oauth_users, now,
                   req, ping, health, page, hash_seed, MONGODB_URI>>

\* on_startup of the application that web.run_app is starting
AppStartup(outcome) ==
    /\ failsafe.pc = "running"
    /\ on_startup(outcome)

\* web.run_app ends: "clean" (it returns, also after a SIGINT or SIGTERM
\* taken by its loop), "addr_in_use" (OSError whose text has 'Address
\* already in use'), "os_error" (any other OSError), "keyboard_interrupt",
\* "exception" (any other Exception); the application is gone (an
\* init_mongodb that awaits its ping is cancelled there), the globals of
\* the module stay, and the closed loop leaves default_int_handler for
\* SIGINT and SIG_DFL for SIGTERM
RunApp(outcome) ==
    /\ failsafe.pc = "running"
    /\ started' = FALSE
    /\ startup' = "idle"
    /\ failsafe' =
          LET f == [failsafe EXCEPT !.last = outcome,
                                    !.sigint = "default_int_handler",
                                    !.sigterm = "SIG_DFL"]
          IN CASE outcome \in {"clean", "keyboard_interrupt"} ->
                    [f EXCEPT !.pc = "returned", !.exit = 0]
               [] outcome = "addr_in_use" -> [f EXCEPT !.pc = "freeing"]
               [] outcome = "os_error" ->
                    [f EXCEPT !.pc = "raised", !.exit = 1]
               [] OTHER ->
                    IF f.retry_count + 1 < f.max_retries
                    THEN [f EXCEPT !.pc = "delaying", !.retry_count = @ + 1]
                    ELSE [f EXCEPT !.pc = "exited", !.retry_count = @ + 1,
                                   !.reported = TRUE, !.exit = 1]
    /\ UNCHANGED <<mongo_client, db, L_mongo_client, L_db, oauth_users, now,
                   req, ping, health, page, hash_seed, MONGODB_URI>>

\* time.sleep(3) after `fuser -k` is over: retry_count += 1 and the loop
\* goes on
Freed ==
    /\ failsafe.pc = "freeing"
    /\ failsafe' = [failsafe EXCEPT !.pc = "loop", !.retry_count = @ + 1]
    /\ UNCHANGED <<started, startup, mongo_client, db, L_mongo_client, L_db, oauth_users, now,
                   req, ping, health, page, hash_seed, MONGODB_URI>>

\* time.sleep(retry_delay) is over and the loop goes on
Delayed ==
    /\ failsafe.pc = "delaying"
    /\ failsafe' = [failsafe EXCEPT !.pc = "loop"]
    /\ UNCHANGED <<started, startup, mongo_client, db, L_mongo_client, L_db, oauth_users, now,
                   req, ping, health, page, hash_seed, MONGODB_URI>>

\* SIGINT or SIGTERM arrives while run_with_failsafe runs outside
\* web.run_app.  handle_sigterm calls sys.exit(0): SystemExit is not an
\* Exception and leaves the function.  default_int_handler raises
\* KeyboardInterrupt: the try block catches it and breaks, anywhere else it
\* leaves the function.  SIG_DFL ends the process.
Signal(sig) ==
    /\ failsafe.pc \in {"loop", "starting", "freeing", "delaying"}
    /\ failsafe' =
          LET handler == IF sig = "SIGINT" THEN failsafe.sigint ELSE failsafe.sigterm
              f == [failsafe EXCEPT !.signal = sig]
          IN CASE handler = "handle_sigterm" -> [f EXCEPT !.pc = "exited", !.exit = 0]
               [] handler = "default_int_handler" ->
                    IF failsafe.pc = "starting"
                    THEN [f EXCEPT !.pc = "returned", !.exit = 0]
                    ELSE [f EXCEPT !.pc = "raised", !.exit = 130]
               [] handler = "SIG_DFL" -> [f EXCEPT !.pc = "killed", !.exit = 143]
    /\ UNCHANGED <<started, startup, mongo_client, db, L_mongo_client, L_db, oauth_users, now,
                   req, ping, health, page, hash_seed, MONGODB_URI>>

\* the query string of GET /error
ErrorQuery(code, message) == [code |-> code, message |-> message]

\* urllib.parse.quote_plus on one character: letters, digits and _.-~ are
\* kept, a space becomes +, every other character is written as %XX for
\* each byte of its UTF-8 encoding
quote_char(c) ==
    LET n == ord(c)
        \* the two uppercase hexadecimal digits of a byte
        Hex2(b) == HexDigits[(b \div 16) + 1] \o HexDigits[(b % 16) + 1]
    IN CASE c = " " -> "+"
         [] n \in (48..57) \cup (65..90) \cup (97..122) \cup {45, 46, 95, 126} -> c
         [] n < 128 /\ n \notin (48..57) \cup (65..90) \cup (97..122)
                                    \cup {32, 45, 46, 95, 126} ->
              "%" \o Hex2(n)
         [] n >= 128 -> "%" \o Hex2(192 + (n \div 64)) \o "%" \o Hex2(128 + (n % 64))
quote_plus(s) == Join([i \in 1..Len(s) |-> quote_char(SubSeq(s, i, i))])

RECURSIVE urlencode(_)
\* urllib.parse.urlencode of a sequence of <<key, value>> pairs
urlencode(params) ==
    IF params = <<>> THEN ""
    ELSE quote_plus(params[1][1]) \o "=" \o quote_plus(params[1][2])
         \o (IF Len(params) > 1 THEN "&" \o urlencode(Tail(params)) ELSE "")

CLIENT_ID == "1441348516835360870"
REDIRECT_URI == "https://oauth.yell.rest/callback"
\* config.py / lambda_oauth.py DISCORD_OAUTH_URL
DISCORD_OAUTH_URL(impl) ==
    IF impl = "service" THEN "https://discord.com/api/oauth2/authorize"
    ELSE "https://discord.com/oauth2/authorize"

\* get_oauth_url() of each file: the authorize URL with client_id,
\* redirect_uri, response_type and scope
get_oauth_url(impl) ==
    DISCORD_OAUTH_URL(impl) \o "?" \o
    urlencode(<< <<"client_id", CLIENT_ID>>, <<"redirect_uri", REDIRECT_URI>>,
                 <<"response_type", "code">>, <<"scope", "identify">> >>)

\* service.py handle_home: the boot page with the connect link
handle_home == Result("Home", "", get_oauth_url("service"), 200, "", "")
\* service.py handle_authorize: web.HTTPFound(get_oauth_url())
handle_authorize == Result("Redirect", "", get_oauth_url("service"), 302, "", "")
\* service.py handle_credits: the credits page
handle_credits == Result("Credits", "", "", 200, "", "")
\* handle_error (both files): the error view of the code and message of
\* the query string
handle_error(query) ==
    render_error(Format(DictGet(query.code, PyStr("AUTH_FAILED"))),
                 Format(DictGet(query.message,
                                PyStr("Authorization was denied or expired."))))
\* lambda_oauth.py lambda_handler, path /oauth-url: the URL as JSON
L_oauth_url == Result("Json", "", get_oauth_url("lambda"), 200, "", "")
\* lambda_oauth.py lambda_handler: a path that is not routed
L_not_found == Result("NotFound", "", "Not found", 404, "", "")
\* service.py: a path without a route in create_app (the router's 404)
not_found == Result("NotFound", "", "404: Not Found", 404, "", "")

\* the routes of create_app and of lambda_handler but /callback and /health
handle_static(impl, path, query) ==
    CASE path = "/error" -> handle_error(query)
      [] path = "/" /\ impl = "service" -> handle_home
      [] path = "/authorize" /\ impl = "service" -> handle_authorize
      [] path = "/credits" /\ impl = "service" -> handle_credits
      [] path = "/oauth-url" /\ impl = "lambda" -> L_oauth_url
      [] impl = "service" -> not_found
      [] OTHER -> L_not_found

\* a GET of a path other than /callback and /health is answered
StaticGet(impl, path, query) ==
    /\ impl = "service" => started
    /\ page' = Page(impl, path, handle_static(impl, path, query))
    /\ UNCHANGED <<started, startup, mongo_client, db, L_mongo_client, L_db, oauth_users, now,
                   req, ping, health, hash_seed, MONGODB_URI, failsafe>>

(***************************************************************************)
(* Inputs.                                                                 *)
(***************************************************************************)
RunOutcomes == {"clean", "addr_in_use", "os_error", "keyboard_interrupt", "exception"}
Signals == {"SIGINT", "SIGTERM"}
StaticPaths == {"/", "/authorize", "/error", "/credits", "/oauth-url"}
ErrorQueries ==
    { ErrorQuery(c, m) :
        c \in {KeyAbsent, PyStr("NO_CODE"), PyStr("TOKEN_ERROR"), PyStr("USER_ERROR")},
        m \in {KeyAbsent, PyStr("Try again")} }
\* GET /error without a query string
PlainErrorQueries == { ErrorQuery(KeyAbsent, KeyAbsent) }
StartupOutcomes == {"no_uri", "client_raise", "ping_fail", "ok"}

\* str(e) of a transport failure
NetDetail == "Connection reset by peer"
\* str(e) of a JSON decoder that finds no value at column n of line 1
ExpectingValue(n) ==
    "Expecting value: line 1 column " \o ToString(n) \o " (char " \o ToString(n - 1) \o ")"

StoreOutcomes == {"ok", "raise"}

\* how a read of a response body that raises ends
FailedReads ==
    { Step("timeout", "TimeoutError", ""),
      Step("network", "ClientPayloadError", "Response payload is not completed"),
      Step("unexpected", "RuntimeError", "boom") }
\* how the resp.text() after a read that raised ends: with a text, or with
\* an exception
TextReads ==
    { Step("ok", "", "<html>"), Step("ok", "", Body201),
      Step("ok", "", "{\"error\": \"invalid_grant\"}"),
      Step("timeout", "TimeoutError", ""),
      Step("network", "ClientConnectionError", "Connection closed"),
      Step("unexpected", "RuntimeError", "boom") }

\* query strings of /callback
Queries ==
    { Query(c, e, d) :
        c \in {KeyAbsent, PyStr(""), PyStr("abc")},
        e \in {KeyAbsent, PyStr(""), PyStr("access_denied"), PyStr("Server_Error"),
                PyStr("invalid_scope")},
        d \in {KeyAbsent, PyStr("User said no")} }

\* a body that is a JSON object, with its raw text
TokenObject(access_token) ==
    TokenBody("object", access_token, KeyAbsent, KeyAbsent,
              json_object(<< <<"access_token", access_token>> >>))
TokenErrorObject(error, error_description) ==
    TokenBody("object", KeyAbsent, error, error_description,
              json_object(<< <<"error", error>>,
                             <<"error_description", error_description>> >>))
TokenNotObject(json, text) == TokenBody(json, KeyAbsent, KeyAbsent, KeyAbsent, text)
\* a body that is not JSON, with the message of the decoder
TokenNotJson(text, detail) == [TokenNotObject("invalid", text) EXCEPT !.detail = detail]

TokenBodies ==
    { TokenNotJson("<html>", ExpectingValue(1)), TokenNotObject("null", "null"),
      TokenNotJson("{\"access_token\": ", ExpectingValue(18)),
      TokenNotObject("list", "[]"),
      TokenNotJson(Body200, ExpectingValue(1)), TokenNotJson(Body201, ExpectingValue(1)),
      TokenNotJson(Body300, ExpectingValue(1)),
      TokenObject(KeyAbsent), TokenObject(None), TokenObject(PyStr("")),
      TokenObject(PyList("[]")), TokenObject(PyDict("{}")),
      TokenObject(PyFloat("0.0")), TokenObject(PyFloat("1.5")),
      TokenObject(PyStr("tok")),
      TokenErrorObject(PyStr("invalid_grant"), KeyAbsent),
      TokenErrorObject(PyStr("invalid_grant"), PyStr("Invalid code")) }

TokenOutcomes ==
    { Raise("timeout", "TimeoutError", "", NoTokenData),
      Raise("network", "ConnectionError", NetDetail, NoTokenData),
      Raise("unexpected", "RuntimeError", "boom", NoTokenData) }
    \cup { Outcome("response", st, b) : st \in {200, 201, 400}, b \in TokenBodies }
    \cup { [Outcome("response", st, NoTokenData) EXCEPT !.read = read] :
             st \in {200, 400}, read \in FailedReads }

ProfileObject(id, username, discriminator, avatar) ==
    ProfileBody("object", id, username, discriminator, avatar, KeyAbsent,
                json_object(<< <<"id", id>>, <<"username", username>>,
                               <<"discriminator", discriminator>>,
                               <<"avatar", avatar>> >>))
ProfileErrorObject(message) ==
    ProfileBody("object", KeyAbsent, KeyAbsent, KeyAbsent, KeyAbsent, message,
                json_object(<< <<"message", message>> >>))
ProfileNotObject(json, text) ==
    ProfileBody(json, KeyAbsent, KeyAbsent, KeyAbsent, KeyAbsent, KeyAbsent, text)

\* a body that is not JSON, with the message of the decoder
ProfileNotJson(text, detail) == [ProfileNotObject("invalid", text) EXCEPT !.detail = detail]

ProfileBodies ==
    { ProfileNotJson("<html>", ExpectingValue(1)), ProfileNotObject("null", "null"),
      ProfileNotObject("list", "[]"),
      ProfileErrorObject(PyStr("401: Unauthorized")) }
    \cup { ProfileObject(id, PyStr("alice"), KeyAbsent, KeyAbsent) :
             id \in {KeyAbsent, None, PyStr("1"), PyStr("01"), PyStr("x1"),
                     PyIntVal("1"), PyStr(" 1"), PyStr("_1"), PyStr("-0_2"),
                     PyStr("80351110224678912"), PyList("[]"),
                     PyStr(chr(11) \o "1\n"), PyFloat("1.5"),
                     PyFloat("nan")} }
    \cup { ProfileObject(PyStr("1"), PyStr("alice"), disc, KeyAbsent) :
             disc \in {None, PyStr("0"), PyStr("4242"), PyIntVal("0")} }
    \cup { ProfileObject(PyStr("1"), KeyAbsent, PyStr("0"), KeyAbsent),
           ProfileObject(PyStr("1"), PyStr("alice"), PyStr("0"), PyStr("a1b2")) }

ProfileOutcomes ==
    { Raise("timeout", "TimeoutError", "", NoUserData),
      Raise("network", "ConnectionError", NetDetail, NoUserData),
      Raise("unexpected", "RuntimeError", "boom", NoUserData) }
    \cup { Outcome("response", st, b) : st \in {200, 401}, b \in ProfileBodies }
    \cup { [Outcome("response", st, NoUserData) EXCEPT !.read = read] :
             st \in {200, 401}, read \in FailedReads }

(***************************************************************************)
(* SpecFlow: one callback request at a time, every shape of input.         *)
(***************************************************************************)
FlowRequest == "r1"

NextFlow ==
    \/ \E o \in StartupOutcomes \ {"client_raise"} : on_startup(o)
    \/ \E impl \in Impls, q \in Queries : Receive(FlowRequest, impl, q)
    \/ \E out \in TokenOutcomes : ExchangeReturn(FlowRequest, out)
    \/ \E out \in TokenOutcomes : ExchangeRead(FlowRequest, out)
    \/ \E text \in TextReads : ExchangeText(FlowRequest, text)
    \/ \E out \in ProfileOutcomes : FetchReturn(FlowRequest, out)
    \/ \E out \in ProfileOutcomes : FetchRead(FlowRequest, out)
    \/ \E text \in TextReads : FetchText(FlowRequest, text)
    \/ \E c \in StoreOutcomes : SaveBegin(FlowRequest, c)
    \/ \E w \in StoreOutcomes : Save(FlowRequest, w)
    \/ CancelExchange(FlowRequest)
    \/ CancelFetch(FlowRequest)
    \/ \E a \in BOOLEAN : CancelSave(FlowRequest, a)
    \/ Done(FlowRequest)

SpecFlow == Init /\ [][NextFlow]_vars

(***************************************************************************)
(* Spec: concurrent callback requests of well-formed flows against the     *)
(* store, the clock and the downstream consumer.                           *)
(***************************************************************************)
\* startups whose client, when it is made, connects
GoodStartups == {"no_uri", "ok"}
GoodQueries == { Query(PyStr("abc"), KeyAbsent, KeyAbsent) }
GoodTokens == { Outcome("response", 200, TokenObject(PyStr("tok"))) }
GoodProfile(id, disc) ==
    Outcome("response", 200, ProfileObject(PyStr(id), PyStr("alice"), PyStr(disc), KeyAbsent))
GoodProfiles == { GoodProfile("1", "0"), GoodProfile("1", "4242"), GoodProfile("2", "0") }

Next ==
    \/ \E o \in GoodStartups : on_startup(o)
    \/ \E r \in Requests, impl \in Impls, q \in GoodQueries : Receive(r, impl, q)
    \/ \E r \in Requests, out \in GoodTokens : ExchangeReturn(r, out)
    \/ \E r \in Requests, out \in GoodTokens : ExchangeRead(r, out)
    \/ \E r \in Requests, out \in GoodProfiles : FetchReturn(r, out)
    \/ \E r \in Requests, out \in GoodProfiles : FetchRead(r, out)
    \/ \E r \in Requests, c \in StoreOutcomes : SaveBegin(r, c)
    \/ \E r \in Requests, w \in StoreOutcomes : Save(r, w)
    \/ \E r \in Requests : Done(r)
    \/ Tick
    \/ \E d \in oauth_users : Consumer(d)

Spec == Init /\ [][Next]_vars

(***************************************************************************)
(* SpecHealth: the service as __main__ runs it, inside run_with_failsafe:  *)
(* startup, the health probe, the static routes and one well-formed        *)
(* callback request at a time; the server ends between two requests, and   *)
(* after a crash run_with_failsafe starts the application again in the     *)
(* same process.                                                           *)
(***************************************************************************)
NextHealth ==
    \/ run_with_failsafe(MaxRetries, TRUE)
    \/ LoopTest
    \/ StartApp
    \/ \E o \in StartupOutcomes : AppStartup(o)
    \/ \E o \in {"clean", "exception"} :
          req[FlowRequest].pc = "Idle" /\ RunApp(o)
    \/ Delayed
    \/ \E impl \in Impls : HealthCheck(impl)
    \/ \E impl \in Impls, path \in StaticPaths, q \in PlainErrorQueries :
          StaticGet(impl, path, q)
    \/ \E impl \in Impls, q \in GoodQueries : Receive(FlowRequest, impl, q)
    \/ \E out \in GoodTokens : ExchangeReturn(FlowRequest, out)
    \/ \E out \in GoodTokens : ExchangeRead(FlowRequest, out)
    \/ \E out \in GoodProfiles : FetchReturn(FlowRequest, out)
    \/ \E out \in GoodProfiles : FetchRead(FlowRequest, out)
    \/ \E c \in StoreOutcomes : SaveBegin(FlowRequest, c)
    \/ \E w \in StoreOutcomes : Save(FlowRequest, w)
    \/ Done(FlowRequest)

SpecHealth == Init /\ [][NextHealth]_vars

(***************************************************************************)
(* SpecTimeout: one callback request at a time against a token endpoint    *)
(* that never answers: it sends nothing, or the status line and the        *)
(* headers of an answer and nothing of its body, or (to requests.post,     *)
(* whose timeout every read of the socket starts anew) up to MaxParts      *)
(* parts of them and then nothing.  Time passes and the timer of the       *)
(* request fires; a resp.text() that is awaited after the timer has fired  *)
(* raises.                                                                 *)
(***************************************************************************)
NextTimeout ==
    \/ \E o \in StartupOutcomes : on_startup(o)
    \/ \E impl \in Impls, q \in GoodQueries : Receive(FlowRequest, impl, q)
    \/ \E st \in {200, 400} :
          ExchangeReturn(FlowRequest, Outcome("response", st, NoTokenData))
    \/ ExchangeWait(FlowRequest)
    \/ ExchangeProgress(FlowRequest)
    \/ ExchangeTimeout(FlowRequest)
    \/ \E text \in {t \in TextReads : t.kind # "ok"} : ExchangeText(FlowRequest, text)
    \/ Done(FlowRequest)

SpecTimeout ==
    /\ Init
    /\ [][NextTimeout]_vars
    /\ WF_vars(ExchangeWait(FlowRequest))
    /\ WF_vars(ExchangeTimeout(FlowRequest))

(***************************************************************************)
(* SpecHex: error pages of processes with every hash seed: the /error      *)
(* route and callback requests that fail at parsing or at the exchange.    *)
(***************************************************************************)
InitHex ==
    /\ Boot
    /\ hash_seed \in HashSeeds

FailingTokens ==
    { Raise("timeout", "TimeoutError", "", NoTokenData),
      Outcome("response", 200, TokenObject(KeyAbsent)) }

NextHex ==
    \/ \E o \in GoodStartups : on_startup(o)
    \/ \E impl \in Impls, path \in StaticPaths, q \in ErrorQueries :
          StaticGet(impl, path, q)
    \/ \E impl \in Impls, q \in Queries : Receive(FlowRequest, impl, q)
    \/ \E out \in FailingTokens : ExchangeReturn(FlowRequest, out)
    \/ \E out \in FailingTokens : ExchangeRead(FlowRequest, out)
    \/ Done(FlowRequest)

SpecHex == InitHex /\ [][NextHex]_vars

(***************************************************************************)
(* SpecFailsafe: the restart loop of service.py.  Every run of the server  *)
(* ends at some time, and the loop goes on when it can.                    *)
(***************************************************************************)
NextFailsafe ==
    \/ \E m \in 0..MaxRetries, main \in BOOLEAN : run_with_failsafe(m, main)
    \/ LoopTest
    \/ StartApp
    \/ \E o \in StartupOutcomes : AppStartup(o)
    \/ \E o \in RunOutcomes : RunApp(o)
    \/ Freed
    \/ Delayed
    \/ \E sig \in Signals : Signal(sig)

SpecFailsafe ==
    /\ Init
    /\ [][NextFailsafe]_vars
    /\ WF_vars(LoopTest)
    /\ WF_vars(StartApp)
    /\ WF_vars(\E o \in RunOutcomes : RunApp(o))
    /\ WF_vars(Freed)
    /\ WF_vars(Delayed)

(***************************************************************************)
(* Properties of the callback flow (SpecFlow).                             *)
(***************************************************************************)
Rendered(r) == req[r].pc = "Rendered"
Failed(r, code) == req[r].result.kind = "Failure" /\ req[r].result.code = code

\* C1: every /callback request whose query string has an `error` parameter,
\* whatever its value and whether or not `code` is present, ends in Failure
\* with the uppercased value of `error` as its code.
C1_ErrorParamAlwaysFails ==
    \A r \in Requests :
        (Rendered(r) /\ req[r].query.error.t # "absent")
            => Failed(r, upper(req[r].query.error.v))

\* C2: a /callback request with neither `code` nor `error` in its query
\* string ends in Failure with code NO_CODE.
C2_NeitherCodeNorError ==
    \A r \in Requests :
        (Rendered(r) /\ req[r].query.code.t = "absent"
                     /\ req[r].query.error.t = "absent")
            => Failed(r, "NO_CODE")

C2_Witness ==
    \E r \in Requests :
        /\ Rendered(r)
        /\ req[r].query.code.t = "absent"
        /\ req[r].query.error.t = "absent"
        /\ Failed(r, "NO_CODE")

\* the exchange failed: timeout or transport failure, of the request or of
\* the read of the body, a status that is not 2xx, or a body that is not
\* JSON
ExchangeFailed(out) ==
    \/ out.kind \in {"timeout", "network"}
    \/ out.kind = "response" /\ out.read.kind \in {"timeout", "network"}
    \/ out.kind = "response" /\ out.read.kind = "ok" /\ out.status \notin 200..299
    \/ out.kind = "response" /\ out.read.kind = "ok" /\ out.body.json = "invalid"

\* C3: whenever the code-for-token exchange fails (timeout, non-success
\* status, transport failure), the callback ends in Failure TOKEN_ERROR.
C3_ExchangeFailureIsTokenError ==
    \A r \in Requests :
        (Rendered(r) /\ ExchangeFailed(req[r].tok)) => Failed(r, "TOKEN_ERROR")

C3_Witness ==
    \E r \in Requests :
        /\ Rendered(r)
        /\ req[r].tok.kind = "response"
        /\ req[r].tok.status = 400
        /\ Failed(r, "TOKEN_ERROR")

\* the exchange succeeded: a 200 response whose body is JSON
ExchangeSucceeded(out) ==
    /\ out.kind = "response" /\ out.status = 200
    /\ out.read.kind = "ok" /\ out.body.json # "invalid"

\* C4: whenever the exchange succeeds and the token response has no access
\* token field, whatever the shape of the response, the callback ends in
\* Failure NO_TOKEN.
C4_NoTokenFieldIsNoToken ==
    \A r \in Requests :
        (Rendered(r) /\ ExchangeSucceeded(req[r].tok)
                     /\ req[r].tok.body.access_token.t = "absent")
            => Failed(r, "NO_TOKEN")

\* the profile fetch failed: timeout or transport failure, of the request
\* or of the read of the body, a status that is not 2xx, or a body that is
\* not JSON
FetchFailed(out) ==
    \/ out.kind \in {"timeout", "network"}
    \/ out.kind = "response" /\ out.read.kind \in {"timeout", "network"}
    \/ out.kind = "response" /\ out.read.kind = "ok" /\ out.status \notin 200..299
    \/ out.kind = "response" /\ out.read.kind = "ok" /\ out.body.json = "invalid"

\* C5: whenever the exchange succeeded with an access token and the profile
\* fetch fails (rejected status, timeout, transport failure), the callback
\* ends in Failure USER_ERROR.
C5_FetchFailureIsUserError ==
    \A r \in Requests :
        (Rendered(r) /\ FetchFailed(req[r].prof)) => Failed(r, "USER_ERROR")

C5_Witness ==
    \E r \in Requests :
        /\ Rendered(r)
        /\ ExchangeSucceeded(req[r].tok)
        /\ Truthy(req[r].access_token)
        /\ req[r].prof.kind = "response"
        /\ req[r].prof.status = 401
        /\ Failed(r, "USER_ERROR")

\* the profile fetch succeeded with a profile the flow can use: an object
\* with a decimal id and a username
FetchSucceeded(out) ==
    /\ out.kind = "response" /\ out.status = 200
    /\ out.read.kind = "ok" /\ out.body.json = "object"
    /\ out.body.id.t # "absent" /\ PyInt(out.body.id).exc = ""
    /\ out.body.username.t # "absent"

\* C6: whenever exchange and profile fetch both succeed, the callback
\* renders the success page whatever the store upsert did (store
\* unconfigured, client not connectable, write raising, write done).
C6_StoreFailureIsNotFatal ==
    \A r \in Requests :
        (Rendered(r) /\ FetchSucceeded(req[r].prof))
            => /\ req[r].result.kind = "Success"
               /\ req[r].result.status = 200
               /\ req[r].saved \in {"True", "False"}

C6_Witness ==
    \E r \in Requests :
        /\ Rendered(r)
        /\ FetchSucceeded(req[r].prof)
        /\ req[r].saved = "False"
        /\ req[r].result.kind = "Success"

\* C7: on the success path the displayed name is username#discriminator
\* exactly when the profile's discriminator is present, not null and not
\* the string "0"; otherwise it is the username alone.
C7_DisplayName ==
    \A r \in Requests :
        (Rendered(r) /\ req[r].result.kind = "Success")
            => LET p == req[r].prof.body
               IN req[r].result.display =
                    IF p.discriminator.t \notin {"absent", "none"}
                       /\ p.discriminator # PyStr("0")
                    THEN p.username.v \o "#" \o p.discriminator.v
                    ELSE p.username.v

(***************************************************************************)
(* Properties of the store (Spec).                                         *)
(***************************************************************************)
\* request r's save_user_to_pool wrote to the store in this step
Upserted(r) ==
    /\ req[r].pc = "Saving"
    /\ req'[r].pc = "Rendered"
    /\ req'[r].saved = "True"

RecordsOf(coll, user_id) == { d \in coll : d._id = user_id }

\* C8: every successful flow for a user id, also a second one after the
\* consumer has set logged to true, leaves one record for that id whose
\* connected_at is the time of that flow (the clock as the flow read it
\* for the write) and whose logged is false.
C8_ReauthorizeRequeues ==
    [][ \A r \in Requests :
          Upserted(r) =>
             /\ Cardinality(RecordsOf(oauth_users', req[r].user_id)) = 1
             /\ \A d \in RecordsOf(oauth_users', req[r].user_id) :
                   d.connected_at = req[r].connected_at /\ d.logged = FALSE ]_vars

\* a record the consumer had marked has been written again by a later flow
C8_Witness ==
    \E r \in Requests, d \in oauth_users :
        /\ Rendered(r) /\ req[r].saved = "True"
        /\ d._id = req[r].user_id
        /\ "notified" \in DOMAIN d
        /\ d.logged = FALSE
        /\ d.connected_at = MaxTime

\* C9: in every reachable state of the store at most one record exists for
\* each id.
C9_OneRecordPerId ==
    \A d1 \in oauth_users, d2 \in oauth_users : d1._id = d2._id => d1 = d2

\* two flows for the same id have both written, and one record is there
C9_Witness ==
    /\ \A r \in Requests : Rendered(r) /\ req[r].saved = "True"
    /\ \E r1 \in Requests, r2 \in Requests :
          /\ r1 # r2
          /\ req[r1].user_id = req[r2].user_id
          /\ req[r1].discriminator # req[r2].discriminator
          /\ Cardinality(RecordsOf(oauth_users, req[r1].user_id)) = 1

\* C10: an upsert replaces the record in full: after it the stored record
\* consists of exactly the fields written by this flow.
C10_FullReplace ==
    [][ \A r \in Requests :
          Upserted(r) =>
             RecordsOf(oauth_users', req[r].user_id) =
                { Doc(req[r].user_id, req[r].username, req[r].discriminator,
                      req[r].avatar, req[r].connected_at) } ]_vars

(***************************************************************************)
(* Keys, flags, status codes, ordering and retries.                        *)
(***************************************************************************)
\* C11: the key of the persisted record is the provider's id stored
\* verbatim: the stored key reads as the id the provider returned (compared
\* as text, so that a string of digits stored as that number counts as
\* unchanged), hence distinct provider ids have distinct keys.
C11_IdStoredVerbatim ==
    \A r \in Requests :
        (Rendered(r) /\ req[r].saved = "True")
            => /\ \E d \in oauth_users : d._id = req[r].user_id
               /\ req[r].user_id = req[r].prof.body.id.v

\* C12: every upsert of this flow writes logged = false and
\* pulled_guilds = [] whatever the record held before, and no step of a
\* callback request makes a record logged.
C12_UpsertResetsFlags ==
    [][ /\ \A r \in Requests :
             Upserted(r) =>
                \A d \in RecordsOf(oauth_users', req[r].user_id) :
                    d.logged = FALSE /\ d.pulled_guilds = <<>>
        /\ req' # req =>
             \A d \in oauth_users' : d.logged => d \in oauth_users ]_vars

\* a record the consumer had filled is back to its initial flags
C12_Witness ==
    \E r \in Requests, d \in oauth_users :
        /\ Rendered(r) /\ req[r].saved = "True"
        /\ d._id = req[r].user_id
        /\ "notified" \in DOMAIN d
        /\ d.logged = FALSE
        /\ d.pulled_guilds = <<>>

\* C14: every classified failure of the callback flow is answered with
\* status 200 and the error view.
C14_FailureIsStatus200 ==
    \A r \in Requests :
        (Rendered(r) /\ req[r].result.kind = "Failure")
            => /\ req[r].result.status = 200
               /\ req[r].result.code \in
                    {"NO_CODE", "TOKEN_ERROR", "NO_TOKEN", "USER_ERROR"}
                    \cup { upper(e.v) : e \in { x \in {req[r].query.error} : Truthy(x) } }

C14_Witness ==
    \E r \in Requests :
        /\ Rendered(r)
        /\ Failed(r, "ACCESS_DENIED")
        /\ req[r].result.status = 200

\* C16: every /callback invocation ends in the success view or in the error
\* view with a classified code, whatever the query and the provider's
\* answers; it never ends with an unhandled exception.
C16_AlwaysRendersAView ==
    \A r \in Requests :
        Rendered(r) => req[r].result.kind \in {"Success", "Failure"}

\* C17: within one request the exchange is issued only after a code and no
\* error were parsed, the profile fetch only after the exchange returned an
\* access token, the upsert only after the profile fetch succeeded; a
\* request that renders an error has issued no store write and a request
\* rejected at parsing has issued no outbound call.
C17_StepsAreOrdered ==
    \A r \in Requests :
        LET q == req[r]
        IN /\ q.calls.exchange > 0 =>
                Truthy(DictGet(q.query.code, None)) /\ ~Truthy(DictGet(q.query.error, None))
           /\ q.calls.fetch > 0 =>
                /\ q.calls.exchange > 0
                /\ ExchangeSucceeded(q.tok)
                /\ Truthy(q.tok.body.access_token)
                /\ q.access_token = q.tok.body.access_token
           /\ q.calls.save > 0 =>
                /\ q.calls.fetch > 0
                /\ q.prof.kind = "response" /\ q.prof.status = 200
                /\ q.prof.read.kind = "ok" /\ q.prof.body.json = "object"
           /\ q.result.kind = "Failure" => q.calls.save = 0 /\ q.saved = "none"
           /\ (q.pc = "Rendered" /\ q.tok.kind = "none") =>
                q.calls.exchange = 0 /\ q.calls.fetch = 0 /\ q.calls.save = 0

\* an error was rendered after the profile fetch, and nothing was written
C17_Witness ==
    \E r \in Requests :
        /\ Rendered(r)
        /\ Failed(r, "USER_ERROR")
        /\ req[r].calls = [exchange |-> 1, fetch |-> 1, save |-> 0]
        /\ oauth_users = {}

\* C18: within one request the token exchange, the profile fetch and the
\* store upsert are each attempted at most once.
C18_NoRetry ==
    \A r \in Requests :
        /\ req[r].calls.exchange <= 1
        /\ req[r].calls.fetch <= 1
        /\ req[r].calls.save <= 1

\* the exchange failed and the request ended after its one attempt
C18_Witness ==
    \E r \in Requests :
        /\ Rendered(r)
        /\ req[r].tok.kind = "network"
        /\ Failed(r, "TOKEN_ERROR")
        /\ req[r].calls.exchange = 1

(***************************************************************************)
(* The health probe (SpecHealth).                                          *)
(***************************************************************************)
\* the store is connected: the service's startup ping answered; the Lambda
\* has a store client
StoreConnected(impl) ==
    IF impl = "service" THEN db # "None" /\ ping = "ok" ELSE L_db # "None"

\* C13: GET /health answers 200 whenever the store is connected and 503
\* whenever it is disconnected, also when the ping made at startup failed.
C13_HealthFollowsStore ==
    [][ health' # health =>
          health'.status = IF StoreConnected(health'.impl) THEN 200 ELSE 503 ]_vars

(***************************************************************************)
(* The silent token endpoint (SpecTimeout).                                *)
(***************************************************************************)
\* C15: when the token endpoint never answers, the exchange ends by timeout
\* and the request reaches the error view with TOKEN_ERROR, and it does not
\* render that error before the timeout has expired: when the view is
\* rendered, the time since exchange_code was called is the 30 of
\* ClientTimeout(total=30) in service.py, and in lambda_oauth.py, whose
\* timeout=30 counts anew after the headers and after every part that its
\* socket has read, at least 30 and at most 30 for each of them and 30 more.
C15_TimeoutEndsExchange ==
    /\ \A r \in Requests :
          (req[r].pc = "Exchanging") ~> (Rendered(r) /\ Failed(r, "TOKEN_ERROR"))
    /\ [](\A r \in Requests :
            (Rendered(r) /\ req[r].calls.exchange = 1) =>
               /\ Failed(r, "TOKEN_ERROR")
               /\ IF req[r].impl = "service"
                  THEN req[r].elapsed = ExchangeTotal
                  ELSE req[r].elapsed \in
                          ExchangeTotal..((req[r].parts + 2) * ExchangeTotal))

\* the token request of the service was given up after 30 time units
C15_Witness ==
    \E r \in Requests :
        /\ Rendered(r)
        /\ req[r].impl = "service"
        /\ req[r].tok.kind = "timeout"
        /\ req[r].calls.exchange = 1
        /\ req[r].elapsed = ExchangeTotal
        /\ req[r].result.message = "Token exchange timed out - Discord API slow"

(***************************************************************************)
(* Cancellation (SpecFlow) and interleaved requests (Spec).                *)
(***************************************************************************)
\* C19: a callback request that is cancelled at a suspension point before
\* the upsert is issued leaves the store as it was: from the cancellation
\* on the request writes no record and no part of one.
C19_CancelledWritesNothing ==
    [][ \A r \in Requests :
          (req'[r].cancelled /\ req[r].calls.save = 0) =>
             /\ oauth_users' = oauth_users
             /\ req'[r].calls.save = 0
             /\ req'[r].saved = "none" ]_vars

\* a request was cancelled during the profile fetch, next to a record of an
\* earlier request
C19_Witness ==
    \E r \in Requests :
        /\ req[r].pc = "Cancelled"
        /\ req[r].cancelled
        /\ req[r].calls.fetch = 1
        /\ oauth_users # {}

\* the fields save_user_to_pool writes
FlowFields(d) ==
    [f \in {"_id", "username", "discriminator", "avatar", "connected_at",
            "logged", "pulled_guilds"} |-> d[f]]

\* C20: when successful requests for one user id interleave, the store has
\* exactly one record for the id, and the fields the flow writes all come
\* from the one request that wrote last; between two upserts the profile
\* fields of a record do not change.
C20_LastWriteWins ==
    [][ /\ \A r \in Requests :
             Upserted(r) =>
                /\ Cardinality(RecordsOf(oauth_users', req[r].user_id)) = 1
                /\ \A d \in RecordsOf(oauth_users', req[r].user_id) :
                      FlowFields(d) = Doc(req[r].user_id, req[r].username,
                                          req[r].discriminator, req[r].avatar,
                                          req[r].connected_at)
        /\ (\A r \in Requests : ~Upserted(r)) =>
             \A d \in oauth_users' :
                \E o \in oauth_users :
                   /\ o._id = d._id
                   /\ o.username = d.username
                   /\ o.discriminator = d.discriminator
                   /\ o.avatar = d.avatar
                   /\ o.connected_at = d.connected_at ]_vars

\* two interleaved requests for one id carried different discriminators;
\* the one record holds the fields of the one that wrote last, which had
\* read the clock first
C20_Witness ==
    \E r1 \in Requests, r2 \in Requests, d \in oauth_users :
        /\ r1 # r2
        /\ req[r2].connected_at < req[r1].connected_at
        /\ d.connected_at = req[r2].connected_at
        /\ Rendered(r1) /\ req[r1].saved = "True"
        /\ Rendered(r2) /\ req[r2].saved = "True"
        /\ req[r1].user_id = req[r2].user_id
        /\ req[r1].discriminator # req[r2].discriminator
        /\ RecordsOf(oauth_users, req[r1].user_id) = {d}
        /\ d.discriminator = req[r2].discriminator
        /\ d.username = req[r2].username

(***************************************************************************)
(* Classification of the token endpoint's answers (SpecFlow).              *)
(***************************************************************************)
\* what exchange_code of the request's handler returned for the answer the
\* request received
Exchanged(r) ==
    IF req[r].impl = "service" THEN exchange_code(req[r].tok)
    ELSE L_exchange_code(req[r].tok)

\* C21: exchange_code rejects an answer of the token endpoint exactly when
\* its status is not 2xx: every 2xx answer with a JSON body is a successful
\* exchange whose payload is returned to the caller, every other status is
\* returned as an error.
C21_RejectedIffNot2xx ==
    \A r \in Requests :
        ( /\ req[r].tok.kind = "response" /\ req[r].tok.read.kind = "ok"
          /\ req[r].tok.body.json # "invalid" )
            => IF req[r].tok.status \in 200..299
               THEN ~Truthy(Exchanged(r).err) /\ Exchanged(r).data = req[r].tok.body
               ELSE Truthy(Exchanged(r).err) /\ Exchanged(r).data = NoTokenData

(***************************************************************************)
(* Shared clients and credentials (SpecFlow).                              *)
(***************************************************************************)
\* C22: the store client and the outbound HTTP client are process-scoped:
\* a store client, once created, is never replaced, and a request creates
\* no HTTP client session beyond the one a first use may create.
C22_ClientsAreProcessScoped ==
    [][ /\ mongo_client # "None" => (mongo_client' = mongo_client /\ db' = db)
        /\ L_mongo_client # "None" => (L_mongo_client' = L_mongo_client /\ L_db' = L_db)
        /\ \A r \in Requests : req'[r].sessions <= 1 ]_vars

\* the credentials request r holds: the client secret and its access token
Secrets(r) ==
    {CLIENT_SECRET} \cup
    (IF Truthy(req[r].access_token) THEN {Format(req[r].access_token)} ELSE {})

\* C25: neither the access token nor the client secret is written to the
\* store or placed in a rendered page: a record holds only the seven fields
\* of the flow, and the token is sent only as the bearer credential of the
\* one profile fetch of its request.
C25_CredentialsStayInFlight ==
    \A r \in Requests :
        /\ \A d \in oauth_users :
              /\ DOMAIN d = {"_id", "username", "discriminator", "avatar",
                             "connected_at", "logged", "pulled_guilds"}
              /\ \A f \in {"username", "discriminator", "avatar"} :
                    Format(d[f]) \notin Secrets(r)
        /\ {req[r].result.code, req[r].result.message, req[r].result.display}
              \cap Secrets(r) = {}
        /\ \A i \in 1..Len(req[r].sent) :
              LET o == req[r].sent[i]
              IN /\ o.client_secret # "" => (i = 1 /\ o.url = "oauth2/token")
                 /\ o.Authorization # "" =>
                       /\ i = 2 /\ o.url = "users/@me"
                       /\ o.Authorization = "Bearer " \o Format(req[r].access_token)
                       /\ req[r].access_token = req[r].tok.body.access_token
        /\ Len(req[r].sent) <= 2

\* a request went through exchange, fetch and upsert and rendered success
C25_Witness ==
    \E r \in Requests :
        /\ Rendered(r) /\ req[r].result.kind = "Success"
        /\ req[r].saved = "True"
        /\ Len(req[r].sent) = 2
        /\ req[r].sent[2].Authorization = "Bearer tok"
        /\ \E d \in oauth_users : d._id = req[r].user_id

(***************************************************************************)
(* The cosmetic error hex (SpecHex).                                       *)
(***************************************************************************)
\* the views shown last: the static page and the result of each request
Shown == {page.result} \cup { req[r].result : r \in Requests }

\* C23: the error hex of an error page is the hash of the error code masked
\* to 16 bits (hash mod 2^16) as 4 uppercase hex digits, and so the same for
\* the same code on every request of the process.
C23_ErrorHexIsMasked16 ==
    \A v \in Shown :
        v.kind = "Failure" => v.hex = Format04X(PyMod(hash(v.code), 65536))

(***************************************************************************)
(* The cap of the raw error body (SpecFlow).                               *)
(***************************************************************************)
\* the first 200 characters of a text, the whole text when it is shorter
First200(text) ==
    IF Len(Chars(text)) <= 200 THEN text ELSE Join(SubSeq(Chars(text), 1, 200))

\* C24: when a non-success token response has a body that does not parse as
\* a JSON error object, the description in the TOKEN_ERROR message is the
\* raw body cut to its first 200 characters.  The body is one that the
\* handler has read; when the read of the body raised there is no body to
\* parse and the message is another one.
C24_RawBodyCutTo200 ==
    \A r \in Requests :
        ( /\ Rendered(r)
          /\ req[r].tok.kind = "response"
          /\ req[r].tok.read.kind = "ok"
          /\ req[r].tok.status \notin 200..299
          /\ req[r].tok.body.json # "object" )
            => /\ Failed(r, "TOKEN_ERROR")
               /\ req[r].result.message =
                     "Token exchange failed (" \o ToString(req[r].tok.status) \o "): "
                        \o First200(req[r].tok.body.text)

\* a body of 201 characters was cut to its first 200
C24_Witness ==
    \E r \in Requests :
        /\ Rendered(r)
        /\ req[r].tok.kind = "response" /\ req[r].tok.status = 400
        /\ req[r].tok.read.kind = "ok"
        /\ req[r].tok.body.text = Body201
        /\ req[r].result.message = "Token exchange failed (400): " \o Body200

(***************************************************************************)
(* Frame of the store and the store handle of the service (SpecHealth).    *)
(***************************************************************************)
\* C26: an upsert for user id X leaves every record whose id is not X as it
\* was, and requests to /, /authorize, /error and /health never modify the
\* store.
C26_OtherRecordsUntouched ==
    [][ /\ \A r \in Requests :
             Upserted(r) =>
                { d \in oauth_users' : d._id # req[r].user_id }
                   = { d \in oauth_users : d._id # req[r].user_id }
        /\ (page' # page \/ health' # health) => oauth_users' = oauth_users ]_vars

\* a record of another user stands next to the one just written, and the
\* static routes and the probe have been served
C26_Witness ==
    \E r \in Requests :
        /\ Rendered(r) /\ req[r].saved = "True"
        /\ \E d \in oauth_users : d._id # req[r].user_id
        /\ \E d \in oauth_users : d._id = req[r].user_id
        /\ page.path = "/error"
        /\ health # NoHealth

\* C28 as the claim states it: once a startup of the service has left the
\* store handle unset (the application runs without it, or /health of the
\* service has answered 503 for the lack of it), the handle is unset for the
\* rest of the process: no step sets it.
C28_UnsetForTheRestOfTheProcess ==
    [][ ( /\ db = "None"
          /\ (started \/ health = Health("service", 503, "disconnected")) )
           => db' = "None" ]_vars

\* C28: in service.py the store handle is assigned only by init_mongodb,
\* which on_startup calls, and by no request handler: once the application
\* has started with the handle unset, the handle stays unset for as long as
\* that application runs, every service callback that reaches the save
\* writes nothing (save returns False) and still renders success, and
\* /health of the service answers 503.  (The next start of the application
\* by run_with_failsafe calls init_mongodb again.)
C28_UnsetHandleStaysUnset ==
    [][ /\ db' # db => (~started /\ startup = "idle" /\ startup' = "ping" /\ req' = req)
        /\ (started /\ db = "None") =>
             /\ db' = "None"
             /\ (health' # health /\ health'.impl = "service") => health'.status = 503
             /\ \A r \in Requests :
                   ( /\ req[r].impl = "service"
                     /\ req[r].pc = "Persisting"
                     /\ req'[r].pc = "Rendered" )
                      => /\ req'[r].saved = "False"
                         /\ req'[r].result.kind = "Success"
                         /\ oauth_users' = oauth_users ]_vars

\* the service runs without a store handle: a callback rendered success
\* without a write and the probe answered 503
C28_Witness ==
    \E r \in Requests :
        /\ failsafe.pc = "running"
        /\ started /\ db = "None"
        /\ Rendered(r) /\ req[r].impl = "service"
        /\ req[r].result.kind = "Success"
        /\ req[r].saved = "False"
        /\ health = Health("service", 503, "disconnected")

(***************************************************************************)
(* The two handlers side by side (SpecFlow).                               *)
(***************************************************************************)
\* what a run of handle_callback amounts to: the error code (or the
\* exception) it ends with, or success with the id, the display name and
\* the document it hands to the store
Verdict(q) ==
    IF q.pc = "Persisting"
    THEN <<"Success", "", q.user_id, Format(display_name(q.username, q.discriminator)),
           Doc(q.user_id, q.username, q.discriminator, q.avatar, 0)>>
    ELSE <<q.result.kind, q.result.code, "", "", {}>>

\* C27: for every query string and every answer of the token endpoint and
\* of the profile endpoint, the Lambda handle_callback and the service
\* handle_callback end the same way: the same error code, or success with
\* the same id, display name and store write.  The answers are those of the
\* requests of the service, which also say how a resp.text() ended.
C27_HandlersAgree ==
    \A r \in Requests :
        (Rendered(r) /\ ~req[r].cancelled /\ req[r].impl = "service")
            => Verdict(handle_callback("service", req[r].query, req[r].tok, req[r].prof))
                 = Verdict(handle_callback("lambda", req[r].query, req[r].tok, req[r].prof))

(***************************************************************************)
(* The restart loop (SpecFailsafe).                                        *)
(***************************************************************************)
Stopped == failsafe.pc \in {"returned", "exited", "raised", "killed"}
\* the last run of the server failed
LastFailed == failsafe.last \in {"addr_in_use", "os_error", "exception"}

\* C29: run_with_failsafe(max_retries) always terminates and starts the
\* server at most max_retries times; after a clean return of the server or
\* a KeyboardInterrupt the loop stops without a restart; every failed start
\* (address in use or any other exception) consumes exactly one of the
\* max_retries attempts: unless a signal cut the function short, the
\* attempts consumed are the starts made whenever the loop goes on or the
\* function is left after a failure.
C29_FailsafeTerminates ==
    /\ (failsafe.pc = "loop") ~> Stopped
    /\ [](failsafe.starts <= failsafe.max_retries)
    /\ []( ( /\ LastFailed
             /\ failsafe.signal = "none"
             /\ failsafe.pc \in {"loop", "starting", "delaying", "returned",
                                 "exited", "raised"} )
             => failsafe.retry_count = failsafe.starts )
    /\ [][ /\ Stopped => failsafe' = failsafe
           /\ (failsafe.pc = "running" /\ failsafe'.pc # "running"
               /\ failsafe'.last \in {"clean", "keyboard_interrupt"}) =>
                /\ failsafe'.pc = "returned"
                /\ failsafe'.retry_count = failsafe.retry_count ]_vars

\* C30: whenever run_with_failsafe gives up because max_retries start
\* attempts have all failed, it has reported that max retries were reached
\* and the process exits with status 1, whatever the failures were.
C30_GivingUpExitsWithOne ==
    ( /\ Stopped
      /\ failsafe.signal = "none"
      /\ failsafe.max_retries > 0
      /\ failsafe.retry_count = failsafe.max_retries )
        => /\ failsafe.reported
           /\ failsafe.pc = "exited"
           /\ failsafe.exit = 1
====
